---- MODULE Spec2Model ----
(***************************************************************************)
(* A model of the document processing pipeline of hall-guard-ai:           *)
(*   - DocumentChunkingService   (semantic chunking, token budgets)        *)
(*   - FileValidationUtil        (upload validation, security layer)       *)
(*   - TextExtractionService     (file type detection, validation probe)   *)
(*   - DocumentProcessor         (orchestration and progress events)       *)
(*                                                                         *)
(* Text is modelled as a sequence of sentences.  A sentence is one of a    *)
(* few kinds, each with a word count, a punctuation count, a count of      *)
(* other symbols and a length in characters; these are the only things     *)
(* the chunker reads from a sentence.  Paragraphs are separated by a       *)
(* blank line, sentences of one paragraph by ". ".                         *)
(***************************************************************************)
EXTENDS Integers, Sequences, FiniteSets, TLC

VARIABLES
    \* ---- DocumentChunkingService.chunkDocument -----------------------
    text,          \* the text handed to chunkDocument
    thisOptions,   \* this.options of the service (constructor)
    callOptions,   \* the options argument of chunkDocument, or NoOptions
    chunkOutcome,  \* Pending, or what chunkDocument returned or threw
    \* ---- FileValidationUtil.validateFile ----------------------------
    file,              \* the buffer and the filename handed in
    validationOptions, \* the ValidationOptions argument
    validationResult,  \* Pending, or the FileValidationResult returned
    \* ---- DocumentProcessor.processDocument --------------------------
    document,        \* the buffer and filename handed in (and what the
                     \* format libraries can read from the buffer)
    onProgress,      \* the progress callback, possibly undefined
    serviceOptions, \* the options the processor's chunking service has
    pc,              \* where the invocation is
    events,          \* the progress objects passed to updateProgress so far
    caught,          \* the error the catch block received, or NoError
    validation,      \* Pending, or what extractionService.validateFile returned
    extractedText,   \* the text extraction returned, or NoText
    chunks,          \* the chunks chunking returned
    result,          \* Pending, or the ProcessingResult returned
    extractCalls,    \* invocations of extractText during this invocation
    chunkCalls,      \* invocations of chunkDocument during this invocation
    \* ---- TextExtractionService.extractText ---------------------------
    extractInput,    \* the buffer and filename handed to extractText
    extractOutcome,  \* Pending, or what extractText returned or threw
    \* ---- DocumentProcessor.processMultipleDocuments ------------------
    files,           \* the list of documents handed in
    batchCallback,   \* the index-tagged progress callback, possibly undefined
    batchIndex,      \* the loop variable i (0-based)
    batchResults,    \* the results array
    batchEvents,     \* the <<fileIndex, progress>> calls the callback received
    batchPc,         \* where the batch is
    \* ---- two processDocument invocations on one DocumentProcessor ----
    invocations,     \* the frame (arguments and locals) of each invocation
    \* ---- the document routes and the record store ---------------------
    record,          \* the Document row of the one document
    chunkRecords,    \* the chunkIndex of each DocumentChunk row of the document
    runs,            \* the background runs: where each is, and its locals
    statusResponse,  \* what GET .../status answered last
    \* ---- createWorkflowTransition ------------------------------------
    transitions,     \* the WorkflowTransition rows of the document
    calls            \* the createWorkflowTransition calls: where each is

chunkVars == <<text, thisOptions, callOptions, chunkOutcome>>
validateVars == <<file, validationOptions, validationResult>>
processInputs == <<document, onProgress, serviceOptions>>
processVars == <<document, onProgress, serviceOptions, pc, events, caught,
                 validation, extractedText, chunks, result, extractCalls,
                 chunkCalls>>
extractVars == <<extractInput, extractOutcome>>
batchVars == <<files, batchCallback, batchIndex, batchResults, batchEvents, batchPc>>
concurrentVars == <<invocations>>
routeVars == <<record, chunkRecords, runs, statusResponse>>
workflowVars == <<transitions, calls>>

vars == <<text, thisOptions, callOptions, chunkOutcome,
          file, validationOptions, validationResult,
          document, onProgress, serviceOptions, pc, events, caught,
          validation, extractedText, chunks, result, extractCalls, chunkCalls,
          extractInput, extractOutcome,
          files, batchCallback, batchIndex, batchResults, batchEvents, batchPc,
          invocations,
          record, chunkRecords, runs, statusResponse,
          transitions, calls>>

\* ------------------------------------------------------------------------
\* Bounds
\* ------------------------------------------------------------------------
\* the largest number of sentences of a text handed to the chunker
MaxSentences == 4

\* ------------------------------------------------------------------------
\* Generic helpers
\* ------------------------------------------------------------------------
Pending == [state |-> "pending"]
Idle == [state |-> "idle"]
Null == "null"
Undefined == "undefined"

Min(a, b) == IF a < b THEN a ELSE b

InSeq(x, s) == \E i \in 1..Len(s) : s[i] = x
NoOptions == [none |-> TRUE]

RECURSIVE SumSeq(_)
SumSeq(s) == IF s = <<>> THEN 0 ELSE Head(s) + SumSeq(Tail(s))

CeilDiv10(n) == (n + 9) \div 10

\* ------------------------------------------------------------------------
\* Sentences and texts (the inputs of the chunker)
\* ------------------------------------------------------------------------
SentenceKinds == {"small", "big"}

\* what estimateTokenCount and .length see of a sentence:
\* "small" is 38 one-letter words, "big" 1122 words with 5 commas
SentenceKind(k) ==
    IF k = "small"
    THEN [words |-> 38, punct |-> 0, special |-> 0, len |-> 75]
    ELSE [words |-> 1122, punct |-> 5, special |-> 0, len |-> 2248]

SemanticTypes == {"paragraph", "heading", "list"}

\* A sentence of a text: its kind, and either the type of the paragraph it
\* opens or "cont" when it continues the paragraph of the previous sentence.
TextSentences == [kind : SentenceKinds, start : SemanticTypes \cup {"cont"}]

\* isHeading accepts only paragraphs shorter than 100 characters: a heading
\* is a single small sentence.
WellFormedText(t) ==
    /\ Len(t) > 0 => t[1].start # "cont"
    /\ \A i \in 1..Len(t) :
          t[i].start = "heading" =>
             /\ t[i].kind = "small"
             /\ (i < Len(t) => t[i + 1].start # "cont")

Texts ==
    { t \in UNION { [1..n -> TextSentences] : n \in 0..MaxSentences } :
         WellFormedText(t) }

\* text.split(/\n\n+/) after normalizeText: the paragraphs, each with the
\* semantic type detectSemanticType gives it and its sentences
RECURSIVE Paragraphs(_)
Paragraphs(t) ==
    IF t = <<>> THEN <<>>
    ELSE LET n == Len(t)
             lastStart == CHOOSE i \in 1..n :
                             /\ t[i].start # "cont"
                             /\ \A j \in (i + 1)..n : t[j].start = "cont"
         IN  Append(Paragraphs(SubSeq(t, 1, lastStart - 1)),
                    [type  |-> t[lastStart].start,
                     sents |-> [j \in 1..(n - lastStart + 1) |->
                                   t[lastStart + j - 1].kind]])

\* ------------------------------------------------------------------------
\* DocumentChunkingService
\* ------------------------------------------------------------------------
\* estimateTokenCount of a text with the given counts:
\* ceil(words * 1.3 + punctuation * 0.2 + other symbols * 0.3)
EstimateTokenCount(words, punct, special) ==
    IF words = 0 THEN 0
    ELSE CeilDiv10(13 * words + 2 * punct + 3 * special)

SentenceTokens(k) ==
    EstimateTokenCount(SentenceKind(k).words, SentenceKind(k).punct,
                       SentenceKind(k).special)

\* the counts of a content made of sentences joined by ". " (joinPunct = 1,
\* joinLen = 2, a paragraph) or by " " (joinPunct = 0, joinLen = 1, the
\* pieces splitLargeUnit assembles)
ContentWords(sents)   == SumSeq([i \in 1..Len(sents) |-> SentenceKind(sents[i]).words])
ContentSpecial(sents) == SumSeq([i \in 1..Len(sents) |-> SentenceKind(sents[i]).special])
ContentPunct(sents, joinPunct) ==
    SumSeq([i \in 1..Len(sents) |-> SentenceKind(sents[i]).punct])
        + joinPunct * (Len(sents) - 1)
ContentLength(sents, joinLen) ==
    SumSeq([i \in 1..Len(sents) |-> SentenceKind(sents[i]).len])
        + joinLen * (Len(sents) - 1)

ParagraphTokens(sents) ==
    EstimateTokenCount(ContentWords(sents), ContentPunct(sents, 1),
                       ContentSpecial(sents))

DEFAULT_CHUNKING_OPTIONS ==
    [maxTokens |-> 1500, overlapTokens |-> 150, minChunkSize |-> 100]

\* the options a service is constructed or called with
OptionsSet ==
    { DEFAULT_CHUNKING_OPTIONS,
      [maxTokens |-> 90, overlapTokens |-> 0, minChunkSize |-> 80],
      [maxTokens |-> 90, overlapTokens |-> 60, minChunkSize |-> 40] }

\* { ...this.options, ...options }
MergeOptions(base, override) ==
    IF override = NoOptions THEN base ELSE override

\* splitIntoSemanticUnits: one unit per paragraph, or one unit per sentence
\* for a "paragraph" whose estimate exceeds this.options.maxTokens
RECURSIVE SentenceUnits(_, _, _)
SentenceUnits(sents, i, position) ==
    IF i > Len(sents) THEN <<>>
    ELSE <<[content       |-> <<sents[i]>>,
            type          |-> "paragraph",
            startPosition |-> position,
            endPosition   |-> position + SentenceKind(sents[i]).len,
            tokenCount    |-> SentenceTokens(sents[i])]>>
         \o SentenceUnits(sents, i + 1, position + SentenceKind(sents[i]).len)

RECURSIVE SplitParagraphs(_, _, _, _)
SplitParagraphs(paragraphs, i, position, ctorMaxTokens) ==
    IF i > Len(paragraphs) THEN <<>>
    ELSE LET p == paragraphs[i]
         IN  IF p.type = "paragraph" /\ ParagraphTokens(p.sents) > ctorMaxTokens
             THEN SentenceUnits(p.sents, 1, position)
                  \o SplitParagraphs(paragraphs, i + 1,
                        position + ContentLength(p.sents, 0), ctorMaxTokens)
             ELSE <<[content       |-> p.sents,
                     type          |-> p.type,
                     startPosition |-> position,
                     endPosition   |-> position + ContentLength(p.sents, 2),
                     tokenCount    |-> ParagraphTokens(p.sents)]>>
                  \o SplitParagraphs(paragraphs, i + 1,
                        position + ContentLength(p.sents, 2) + 2, ctorMaxTokens)

splitIntoSemanticUnits(t, ctorMaxTokens) ==
    SplitParagraphs(Paragraphs(t), 1, 0, ctorMaxTokens)

UnitTokens(units) == SumSeq([i \in 1..Len(units) |-> units[i].tokenCount])

\* createOverlap: units from the end until their tokens reach overlapTokens
RECURSIVE OverlapFrom(_, _, _, _)
OverlapFrom(units, i, tokenCount, overlapTokens) ==
    IF i >= 1 /\ tokenCount < overlapTokens
    THEN Append(OverlapFrom(units, i - 1, tokenCount + units[i].tokenCount,
                            overlapTokens),
                units[i])
    ELSE <<>>

createOverlap(units, overlapTokens) ==
    OverlapFrom(units, Len(units), 0, overlapTokens)

\* splitLargeUnit: the unit's sentences packed greedily into pieces of at
\* most maxTokens (a single sentence above maxTokens stays whole)
RECURSIVE SplitLargeLoop(_, _, _, _, _, _, _)
SplitLargeLoop(unit, sents, i, current, currentTokens, startPos, maxTokens) ==
    IF i > Len(sents)
    THEN IF current # <<>>
         THEN <<[content       |-> current,
                 type          |-> unit.type,
                 startPosition |-> startPos,
                 endPosition   |-> startPos + ContentLength(current, 1),
                 tokenCount    |-> currentTokens]>>
         ELSE <<>>
    ELSE LET sentenceTokens == SentenceTokens(sents[i])
         IN  IF currentTokens + sentenceTokens > maxTokens /\ current # <<>>
             THEN <<[content       |-> current,
                     type          |-> unit.type,
                     startPosition |-> startPos,
                     endPosition   |-> startPos + ContentLength(current, 1),
                     tokenCount    |-> currentTokens]>>
                  \o SplitLargeLoop(unit, sents, i + 1, <<sents[i]>>,
                        sentenceTokens, startPos + ContentLength(current, 1),
                        maxTokens)
             ELSE SplitLargeLoop(unit, sents, i + 1, Append(current, sents[i]),
                        currentTokens + sentenceTokens, startPos, maxTokens)

splitLargeUnit(unit, maxTokens) ==
    SplitLargeLoop(unit, unit.content, 1, <<>>, 0, unit.startPosition, maxTokens)

\* buildChunk: the primary type is the reduce over Object.entries(typeCounts),
\* whose keys are in order of first appearance among the units
TypeCount(units, ty) == Cardinality({i \in 1..Len(units) : units[i].type = ty})

RECURSIVE TypesInOrder(_, _)
TypesInOrder(units, i) ==
    IF i > Len(units) THEN <<>>
    ELSE IF \E j \in 1..(i - 1) : units[j].type = units[i].type
         THEN TypesInOrder(units, i + 1)
         ELSE <<units[i].type>> \o TypesInOrder(units, i + 1)

RECURSIVE PrimaryFrom(_, _, _, _)
PrimaryFrom(units, order, i, a) ==
    IF i > Len(order) THEN a
    ELSE PrimaryFrom(units, order, i + 1,
            IF TypeCount(units, a) > TypeCount(units, order[i]) THEN a ELSE order[i])

primaryType(units) ==
    LET order == TypesInOrder(units, 1)
    IN  PrimaryFrom(units, order, 2, order[1])

\* buildChunk taking both positions from the end of its last unit
buildChunk_StartAtEnd(units, index) ==
    [index         |-> index,
     units         |-> units,
     tokenCount    |-> UnitTokens(units),
     startPosition |-> units[Len(units)].endPosition,
     endPosition   |-> units[Len(units)].endPosition,
     semanticType  |-> primaryType(units),
     unitCount     |-> Len(units)]

buildChunk(units, index) ==
    [index         |-> index,
     units         |-> units,
     tokenCount    |-> UnitTokens(units),
     startPosition |-> units[1].startPosition,
     endPosition   |-> units[Len(units)].endPosition,
     semanticType  |-> primaryType(units),
     unitCount     |-> Len(units)]

\* createChunks, the loop body for one split unit of an oversized unit
\* (a chunk closed here is followed by an empty chunk: no overlap)
PushSplitUnit(acc, splitUnit, options) ==
    LET closed ==
            IF /\ acc.currentTokenCount + splitUnit.tokenCount > options.maxTokens
               /\ acc.currentChunk # <<>>
            THEN [chunks            |-> Append(acc.chunks,
                                          buildChunk(acc.currentChunk, acc.chunkIndex)),
                  chunkIndex        |-> acc.chunkIndex + 1,
                  currentChunk      |-> <<>>,
                  currentTokenCount |-> 0]
            ELSE acc
    IN  [closed EXCEPT
            !.currentChunk      = Append(closed.currentChunk, splitUnit),
            !.currentTokenCount = closed.currentTokenCount + splitUnit.tokenCount]

RECURSIVE PushSplitUnits(_, _, _, _)
PushSplitUnits(acc, splitUnits, i, options) ==
    IF i > Len(splitUnits) THEN acc
    ELSE PushSplitUnits(PushSplitUnit(acc, splitUnits[i], options),
                        splitUnits, i + 1, options)

\* createChunks, the chunk closed because the next unit would exceed
\* maxTokens, and the chunk that follows it
CloseChunk(acc, options) ==
    LET next == IF options.overlapTokens > 0
                THEN createOverlap(acc.currentChunk, options.overlapTokens)
                ELSE <<>>
    IN  [chunks            |-> Append(acc.chunks,
                                  buildChunk(acc.currentChunk, acc.chunkIndex)),
         chunkIndex        |-> acc.chunkIndex + 1,
         currentChunk      |-> next,
         currentTokenCount |-> UnitTokens(next)]

\* createChunks, the loop body for one semantic unit
PushUnit(acc, unit, options) ==
    LET closed ==
            IF /\ acc.currentTokenCount + unit.tokenCount > options.maxTokens
               /\ acc.currentChunk # <<>>
            THEN CloseChunk(acc, options)
            ELSE acc
    IN  IF unit.tokenCount > options.maxTokens
        THEN PushSplitUnits(closed, splitLargeUnit(unit, options.maxTokens), 1,
                            options)
        ELSE [closed EXCEPT
                 !.currentChunk      = Append(closed.currentChunk, unit),
                 !.currentTokenCount = closed.currentTokenCount + unit.tokenCount]

RECURSIVE PushUnits(_, _, _, _)
PushUnits(acc, semanticUnits, i, options) ==
    IF i > Len(semanticUnits) THEN acc
    ELSE PushUnits(PushUnit(acc, semanticUnits[i], options),
                   semanticUnits, i + 1, options)

\* createChunks up to its filter: the chunks assembled (const chunks)
AssembleChunks(semanticUnits, options) ==
    LET acc == PushUnits([chunks |-> <<>>, chunkIndex |-> 0,
                          currentChunk |-> <<>>, currentTokenCount |-> 0],
                         semanticUnits, 1, options)
    IN  IF acc.currentChunk # <<>>
        THEN Append(acc.chunks, buildChunk(acc.currentChunk, acc.chunkIndex))
        ELSE acc.chunks

\* KeepChunk with the first chunk kept whatever its size
KeepChunk_KeepsFirst(chunk, assembled, options) ==
    chunk.tokenCount >= options.minChunkSize \/ chunk.index = 0

\* the predicate of createChunks' final chunks.filter
KeepChunk(chunk, assembled, options) ==
    chunk.tokenCount >= options.minChunkSize \/ Len(assembled) = 1

RECURSIVE FilterChunks(_, _, _, _)
FilterChunks(assembled, i, all, options) ==
    IF i > Len(assembled) THEN <<>>
    ELSE IF KeepChunk(assembled[i], all, options)
         THEN <<assembled[i]>> \o FilterChunks(assembled, i + 1, all, options)
         ELSE FilterChunks(assembled, i + 1, all, options)

createChunks(semanticUnits, options) ==
    LET assembled == AssembleChunks(semanticUnits, options)
    IN  FilterChunks(assembled, 1, assembled, options)

\* chunkDocument: EMPTY_TEXT for a text without content, else the chunks
chunkDocument(t, ctorOptions, options) ==
    LET chunkingOptions == MergeOptions(ctorOptions, options)
    IN  IF t = <<>>
        THEN [state |-> "thrown", code |-> "EMPTY_TEXT", retryable |-> FALSE]
        ELSE [state  |-> "returned",
              chunks |-> createChunks(
                            splitIntoSemanticUnits(t, ctorOptions.maxTokens),
                            chunkingOptions)]

\* what createChunks assembled before its filter, for a text with content
AssembledFor(t, ctorOptions, options) ==
    AssembleChunks(splitIntoSemanticUnits(t, ctorOptions.maxTokens),
                   MergeOptions(ctorOptions, options))

\* ------------------------------------------------------------------------
\* Files (the inputs of validation, extraction and processing)
\* ------------------------------------------------------------------------
\* MAX_FILE_SIZE = 100 * 1024 * 1024
MAX_FILE_SIZE == 104857600

\* A buffer is a content pattern of 8 bytes repeated up to the buffer's
\* length: its leading bytes are exact, which is all the signature checks
\* read.  "docx" and "zip" share their leading bytes and differ in the
\* archive that follows.
ContentPatterns ==
    {"pdf14", "pdf21", "docx", "zip", "zipEmpty", "ole", "rtf", "png",
     "mz", "elf", "machoFeedFace", "machoCeFa", "machoCfFa",
     "text", "control", "shebang", "blank"}

PatternBytes(pattern) ==
    CASE pattern = "pdf14"         -> <<37, 80, 68, 70, 45, 49, 46, 52>>
      [] pattern = "pdf21"         -> <<37, 80, 68, 70, 45, 50, 46, 49>>
      [] pattern = "docx"          -> <<80, 75, 3, 4, 20, 0, 6, 0>>
      [] pattern = "zip"           -> <<80, 75, 3, 4, 20, 0, 6, 0>>
      [] pattern = "zipEmpty"      -> <<80, 75, 7, 8, 20, 0, 6, 0>>
      [] pattern = "ole"           -> <<208, 207, 17, 224, 161, 177, 26, 225>>
      [] pattern = "rtf"           -> <<123, 92, 114, 116, 102, 49, 92, 97>>
      [] pattern = "png"           -> <<137, 80, 78, 71, 13, 10, 26, 10>>
      [] pattern = "mz"            -> <<77, 90, 144, 0, 3, 0, 0, 0>>
      [] pattern = "elf"           -> <<127, 69, 76, 70, 2, 1, 1, 0>>
      [] pattern = "machoFeedFace" -> <<254, 237, 250, 206, 0, 0, 0, 18>>
      [] pattern = "machoCeFa"     -> <<206, 250, 237, 254, 7, 0, 0, 0>>
      [] pattern = "machoCfFa"     -> <<207, 250, 237, 254, 7, 0, 0, 1>>
      [] pattern = "text"          -> <<72, 101, 108, 108, 111, 32, 119, 111>>
      [] pattern = "control"       -> <<72, 1, 101, 108, 2, 111, 32, 119>>
      [] pattern = "shebang"       -> <<35, 33, 47, 98, 105, 110, 47, 115>>
      [] pattern = "blank"         -> <<32, 10, 32, 32, 9, 32, 10, 32>>

BufferLengths == {0, 2, 3, 4, 8, 2048, MAX_FILE_SIZE + 1}

\* a filename as filename.split(".") sees it
Filenames ==
    { <<"a", "pdf">>, <<"a", "docx">>, <<"a", "doc">>, <<"a", "txt">>,
      <<"a", "rtf">>, <<"a", "exe">>, <<"a", "EXE">>, <<"a", "sh">>,
      <<"a", "png">>, <<"a">>, <<"a", "">> }

\* String.prototype.toLowerCase on a name part
ToLowerCase(part) == IF part = "EXE" THEN "exe" ELSE part

\* buffer.subarray(0, n): the first n bytes, fewer when the buffer is shorter
Subarray(buffer, n) ==
    [i \in 1..Min(n, buffer.length) |->
        PatternBytes(buffer.pattern)[((i - 1) % 8) + 1]]

StartsWith(bytes, signature) ==
    /\ Len(bytes) >= Len(signature)
    /\ \A i \in 1..Len(signature) : bytes[i] = signature[i]

\* fileTypeFromBuffer of the file-type package: the MIME type of the
\* signature the buffer starts with, undefined for text and short buffers
fileTypeFromBuffer(buffer) ==
    LET bytes == Subarray(buffer, 8)
    IN  CASE buffer.length <= 1 -> Undefined
          [] StartsWith(bytes, <<37, 80, 68, 70>>) -> "application/pdf"
          [] StartsWith(bytes, <<80, 75, 3, 4>>) ->
                IF buffer.pattern = "docx" /\ buffer.length > 8
                THEN "application/vnd.openxmlformats-officedocument.wordprocessingml.document"
                ELSE "application/zip"
          [] StartsWith(bytes, <<208, 207, 17, 224, 161, 177, 26, 225>>) ->
                "application/x-cfb"
          [] StartsWith(bytes, <<123, 92, 114, 116, 102>>) -> "application/rtf"
          [] StartsWith(bytes, <<137, 80, 78, 71, 13, 10, 26, 10>>) -> "image/png"
          [] StartsWith(bytes, <<77, 90>>) -> "application/x-msdownload"
          [] StartsWith(bytes, <<127, 69, 76, 70>>) -> "application/x-elf"
          [] \/ StartsWith(bytes, <<254, 237, 250, 206>>)
             \/ StartsWith(bytes, <<206, 250, 237, 254>>)
             \/ StartsWith(bytes, <<207, 250, 237, 254>>) ->
                "application/x-mach-binary"
          [] OTHER -> Undefined

\* ------------------------------------------------------------------------
\* FileValidationUtil
\* ------------------------------------------------------------------------
SUPPORTED_FILE_TYPES == {"pdf", "docx", "doc", "txt", "rtf"}

MIME_TYPE_MAP(extension) ==
    CASE extension = "pdf"  -> {"application/pdf"}
      [] extension = "docx" ->
            {"application/vnd.openxmlformats-officedocument.wordprocessingml.document"}
      [] extension = "doc"  -> {"application/msword"}
      [] extension = "txt"  -> {"text/plain"}
      [] extension = "rtf"  -> {"application/rtf", "text/rtf"}
      [] OTHER -> {}

\* getFileExtension: the last part of the lower-cased name, null without one
getFileExtension(filename) ==
    IF Len(filename) > 1 /\ filename[Len(filename)] # ""
    THEN ToLowerCase(filename[Len(filename)])
    ELSE Null

matchesSignature(bytes, signature) ==
    IF Len(bytes) < Len(signature) THEN FALSE
    ELSE \A i \in 1..Len(signature) : bytes[i] = signature[i]

isLikelyMislabeled(detectedMime, extension) ==
    \/ detectedMime = "application/octet-stream" /\ extension \in {"pdf", "docx"}
    \/ detectedMime = "text/plain" /\ extension \in {"pdf", "docx"}

dangerousExtensions ==
    {"exe", "bat", "cmd", "com", "scr", "pif", "vbs", "js", "jar", "app",
     "dmg", "pkg", "deb", "rpm", "sh", "bash", "ps1", "msi", "bin", "run",
     "action", "workflow"}

executableSignatures ==
    { <<77, 90>>, <<127, 69, 76, 70>>, <<254, 237, 250, 206>>,
      <<206, 250, 237, 254>>, <<207, 250, 237, 254>> }

\* the MIME type step of validateFile: what it adds to errors and warnings
MimeTypeCheck(buffer, extension, strictMime) ==
    LET detectedType == fileTypeFromBuffer(buffer)
        none == [errors |-> <<>>, warnings |-> <<>>]
    IN  IF buffer.length > 0 /\ extension # Null /\ strictMime
        THEN IF detectedType # Undefined
             THEN IF /\ extension \in SUPPORTED_FILE_TYPES
                     /\ detectedType \notin MIME_TYPE_MAP(extension)
                  THEN IF isLikelyMislabeled(detectedType, extension)
                       THEN [errors |-> <<"MIME_MISMATCH">>, warnings |-> <<>>]
                       ELSE [errors |-> <<>>, warnings |-> <<"MIME_DIFFERS">>]
                  ELSE none
             ELSE IF extension \in SUPPORTED_FILE_TYPES
                  THEN [errors |-> <<>>, warnings |-> <<"MIME_UNVERIFIED">>]
                  ELSE none
        ELSE none

checkFileSecurity(buffer, filename) ==
    LET extension == getFileExtension(filename)
        magicBytes == Subarray(buffer, 4)
    IN  [errors |->
            (IF extension # Null /\ extension \in dangerousExtensions
             THEN <<"DANGEROUS_EXTENSION">> ELSE <<>>)
            \o (IF /\ buffer.length >= 4
                   /\ \E signature \in executableSignatures :
                         matchesSignature(magicBytes, signature)
                THEN <<"EXECUTABLE_CODE">> ELSE <<>>),
         warnings |->
            IF /\ extension = "txt"
               /\ buffer.length > 0
               /\ StartsWith(Subarray(buffer, 8), <<35, 33, 47, 98, 105, 110>>)
            THEN <<"SCRIPT_CONTENT">> ELSE <<>>]

\* validatePDFContent: the %PDF header, and a warning above version 2.0
validatePDFContent(buffer) ==
    LET bytes == Subarray(buffer, 8)
    IN  IF Subarray(buffer, 4) # <<37, 80, 68, 70>>
        THEN [errors |-> <<"INVALID_PDF">>, warnings |-> <<>>]
        ELSE [errors |-> <<>>,
              warnings |->
                 IF /\ Len(bytes) = 8
                    /\ bytes[5] = 45
                    /\ bytes[7] = 46
                    /\ 10 * (bytes[6] - 48) + (bytes[8] - 48) > 20
                 THEN <<"PDF_VERSION">> ELSE <<>>]

validateWordContent(buffer) ==
    LET zipSignature == Subarray(buffer, 4)
        docSignature == Subarray(buffer, 8)
    IN  [errors |->
            IF /\ buffer.length >= 4
               /\ zipSignature # <<80, 75, 3, 4>>
               /\ zipSignature # <<80, 75, 7, 8>>
               /\ docSignature # <<208, 207, 17, 224, 161, 177, 26, 225>>
            THEN <<"INVALID_WORD">> ELSE <<>>,
         warnings |-> <<>>]

\* validateTextContent: bytes below 32 other than tab, LF, CR among the
\* first 1000 bytes; a warning when they are more than a tenth
NonTextBytes(buffer, n) ==
    LET isNonText(i) ==
            LET byte == PatternBytes(buffer.pattern)[((i - 1) % 8) + 1]
            IN  byte < 32 /\ byte \notin {9, 10, 13}
        perPeriod == Cardinality({i \in 1..8 : isNonText(i)})
    IN  (n \div 8) * perPeriod + Cardinality({i \in 1..(n % 8) : isNonText(i)})

validateTextContent(buffer) ==
    LET sampleLength == Min(1000, buffer.length)
    IN  [errors |-> <<>>,
         warnings |->
            IF sampleLength > 0 /\ 10 * NonTextBytes(buffer, sampleLength) > sampleLength
            THEN <<"BINARY_DATA">> ELSE <<>>]

validateRTFContent(buffer) ==
    [errors |->
        IF StartsWith(Subarray(buffer, 8), <<123, 92, 114, 116, 102>>)
        THEN <<>> ELSE <<"INVALID_RTF">>,
     warnings |-> <<>>]

validateFileContent(buffer, fileType) ==
    CASE fileType = "pdf" -> validatePDFContent(buffer)
      [] fileType \in {"docx", "doc"} -> validateWordContent(buffer)
      [] fileType = "txt" -> validateTextContent(buffer)
      [] fileType = "rtf" -> validateRTFContent(buffer)
      [] OTHER -> [errors |-> <<>>, warnings |-> <<>>]

\* FileValidationUtil.validateFile(buffer, filename, options)
validateFile(f, options) ==
    LET buffer == f.buffer
        size == buffer.length
        extension == getFileExtension(f.filename)
        basic ==
            (IF size = 0 THEN <<"EMPTY">> ELSE <<>>)
            \o (IF size > MAX_FILE_SIZE THEN <<"TOO_LARGE">> ELSE <<>>)
            \o (IF extension = Null THEN <<"NO_EXTENSION">>
                ELSE IF extension \notin SUPPORTED_FILE_TYPES
                     THEN <<"UNSUPPORTED_TYPE">> ELSE <<>>)
        mime == MimeTypeCheck(buffer, extension, options.strictMimeTypeCheck)
        security ==
            IF ~options.allowExecutables
            THEN checkFileSecurity(buffer, f.filename)
            ELSE [errors |-> <<>>, warnings |-> <<>>]
        errorsBefore == basic \o mime.errors \o security.errors
        content ==
            IF extension # Null /\ errorsBefore = <<>>
            THEN validateFileContent(buffer, extension)
            ELSE [errors |-> <<>>, warnings |-> <<>>]
        errors == errorsBefore \o content.errors
    IN  [state    |-> "returned",
         valid    |-> errors = <<>>,
         errors   |-> errors,
         warnings |-> mime.warnings \o security.warnings \o content.warnings]

\* ------------------------------------------------------------------------
\* Extracted text
\* ------------------------------------------------------------------------
\* A text is the empty string, whitespace only, or has content (sentences).
NoText      == [kind |-> "none"]
Corrupt     == [kind |-> "corrupt"]
EmptyString == [kind |-> "empty"]
Whitespace  == [kind |-> "blank"]
Content(body) == [kind |-> "content", body |-> body]

\* !text || text.trim().length === 0
IsBlank(t) == t.kind \in {"empty", "blank"}

\* the sentences of a text, none for a text without content
Body(t) == IF t.kind = "content" THEN t.body ELSE <<>>

\* one short paragraph; two short paragraphs
OneParagraph  == <<[kind |-> "small", start |-> "paragraph"]>>
TwoParagraphs == <<[kind |-> "small", start |-> "paragraph"],
                   [kind |-> "small", start |-> "paragraph"]>>

\* ------------------------------------------------------------------------
\* TextExtractionService
\* ------------------------------------------------------------------------
\* createProcessingError(code, message, details, false)
ExtractionError(code) == [code |-> code, retryable |-> FALSE]

\* no error; and an Error that is not a ProcessingError
NoError == [kind |-> "undefined"]
PlainError == [kind |-> "Error"]

\* isProcessingError: an object with a code and a retryable flag
isProcessingError(error) ==
    "code" \in DOMAIN error /\ "retryable" \in DOMAIN error

\* filename.toLowerCase().split(".").pop()
LastPart(filename) == ToLowerCase(filename[Len(filename)])

\* detectFileType, the body of its try block
detectFileTypeTry(buffer, filename) ==
    LET mime == fileTypeFromBuffer(buffer)
        extension == LastPart(filename)
    IN  CASE mime = "application/pdf" -> [state |-> "returned", fileType |-> "pdf"]
          [] mime = "application/vnd.openxmlformats-officedocument.wordprocessingml.document" ->
                [state |-> "returned", fileType |-> "docx"]
          [] mime = "application/msword" -> [state |-> "returned", fileType |-> "doc"]
          [] mime = "text/plain" -> [state |-> "returned", fileType |-> "txt"]
          [] mime \in {"application/rtf", "text/rtf"} ->
                [state |-> "returned", fileType |-> "rtf"]
          [] OTHER ->
                IF extension \in {"pdf", "docx", "doc", "txt", "rtf"}
                THEN [state |-> "returned", fileType |-> extension]
                ELSE [state |-> "thrown", error |-> ExtractionError("UNKNOWN_FILE_TYPE")]

\* detectFileType: its catch block wraps whatever the try block threw
detectFileType(buffer, filename) ==
    LET try == detectFileTypeTry(buffer, filename)
    IN  IF try.state = "thrown"
        THEN [state |-> "thrown",
              error |-> ExtractionError("FILE_TYPE_DETECTION_FAILED")]
        ELSE try

\* what pdf-parse reads from the buffer, or its failure
extractFromPDF(doc) ==
    IF doc.buffer.pattern \in {"pdf14", "pdf21"} /\ doc.payload # Corrupt
    THEN [state |-> "returned", text |-> doc.payload]
    ELSE [state |-> "thrown", error |-> ExtractionError("PDF_EXTRACTION_FAILED")]

\* what mammoth reads from the buffer, or its failure
extractFromWord(doc) ==
    IF doc.buffer.pattern = "docx" /\ doc.payload # Corrupt
    THEN [state |-> "returned", text |-> doc.payload]
    ELSE [state |-> "thrown", error |-> ExtractionError("WORD_EXTRACTION_FAILED")]

\* buffer.toString(): the characters of the buffer, whatever they are
Decoded(doc) ==
    CASE doc.buffer.length = 0 -> EmptyString
      [] doc.buffer.pattern = "blank" -> Whitespace
      [] doc.buffer.pattern \in {"text", "rtf"} /\ doc.payload # Corrupt -> doc.payload
      [] OTHER -> Content(OneParagraph)

\* extractFromText: the decoded buffer; an empty string throws
extractFromText(doc) ==
    IF Decoded(doc) = EmptyString
    THEN [state |-> "thrown", error |-> ExtractionError("TEXT_EXTRACTION_FAILED")]
    ELSE [state |-> "returned", text |-> Decoded(doc)]

\* extractFromRTF: control words and braces stripped, whitespace collapsed
\* and trimmed; nothing is checked and nothing throws
extractFromRTF(doc) ==
    [state |-> "returned",
     text  |-> IF IsBlank(Decoded(doc)) THEN EmptyString ELSE Decoded(doc)]

extractText(doc) ==
    LET detected == detectFileType(doc.buffer, doc.filename)
    IN  IF detected.state = "thrown" THEN detected
        ELSE CASE detected.fileType = "pdf" -> extractFromPDF(doc)
               [] detected.fileType \in {"docx", "doc"} -> extractFromWord(doc)
               [] detected.fileType = "txt" -> extractFromText(doc)
               [] detected.fileType = "rtf" -> extractFromRTF(doc)

\* TextExtractionService.validateFile; probed tells whether it called
\* extractText to see that the file is readable
extractionValidateFile(doc) ==
    LET sizeErrors ==
            (IF doc.buffer.length = 0 THEN <<"EMPTY">> ELSE <<>>)
            \o (IF doc.buffer.length > 100 * 1024 * 1024 THEN <<"TOO_LARGE">> ELSE <<>>)
        detected == detectFileType(doc.buffer, doc.filename)
        probed == detected.state = "returned" /\ sizeErrors = <<>>
        errors ==
            IF detected.state = "thrown" THEN <<"VALIDATION_THREW">>
            ELSE sizeErrors
                 \o (IF probed /\ extractText(doc).state = "thrown"
                     THEN <<"UNREADABLE">> ELSE <<>>)
    IN  [valid |-> errors = <<>>, errors |-> errors, probed |-> probed]

\* ------------------------------------------------------------------------
\* DocumentProcessor
\* ------------------------------------------------------------------------
\* isRetryableError answering yes for every code
isRetryableError_Always(code) == TRUE

isRetryableError(code) == code \in {"NETWORK_ERROR", "TIMEOUT", "TEMPORARY_FAILURE"}

\* DocumentProcessor.createError
createError(code) == [code |-> code, retryable |-> isRetryableError(code)]

\* the progress objects of processDocument
ValidatingEvent == [stage |-> "extracting", progress |-> 0, error |-> NoError]
ExtractingEvent == [stage |-> "extracting", progress |-> 20, error |-> NoError]
\* ChunkingEvent reported under the previous stage's label
ChunkingEvent_Mislabelled ==
    [stage |-> "extracting", progress |-> 10, error |-> NoError]

ChunkingEvent == [stage |-> "chunking", progress |-> 60, error |-> NoError]
CompletedEvent  == [stage |-> "completed", progress |-> 100, error |-> NoError]
FailedEvent(processedError) ==
    [stage |-> "failed", progress |-> 0, error |-> processedError]

Stages == {"uploading", "extracting", "chunking", "analyzing", "completed", "failed"}

\* A callback is undefined, or a function that throws on the progress
\* objects of some stages and progress values.
CallbackKey(event) == <<event.stage, event.progress>>
EventKeys ==
    { CallbackKey(ValidatingEvent), CallbackKey(ExtractingEvent),
      CallbackKey(ChunkingEvent), CallbackKey(CompletedEvent),
      CallbackKey(FailedEvent(NoError)) }

Callbacks ==
    { [defined |-> FALSE, throwsOn |-> {}] }
    \cup { [defined |-> TRUE, throwsOn |-> keys] :
              keys \in {{}, EventKeys} \cup { {k} : k \in EventKeys } }

\* updateProgress: the callback, when there is one, is called with the
\* progress object, and what it throws is not caught here
updateProgressThrows(callback, event) ==
    callback.defined /\ CallbackKey(event) \in callback.throwsOn

\* the catch block of processDocument: a ProcessingError is kept, anything
\* else (what a callback throws) becomes PROCESSING_FAILED
\* the catch block handing on whatever it caught
ProcessedError_Uncoded(error) == error

ProcessedError(error) ==
    IF isProcessingError(error) THEN error ELSE createError("PROCESSING_FAILED")

\* crypto.createHash("sha256").update(buffer).digest("hex")
generateFileHash(buffer) == <<"sha256", buffer.pattern, buffer.length>>

\* ------------------------------------------------------------------------
\* Specification of FileValidationUtil.validateFile: one call
\* ------------------------------------------------------------------------
ValidationFiles ==
    [filename : Filenames, buffer : [pattern : ContentPatterns, length : BufferLengths]]

DefaultValidationOptions == [allowExecutables |-> FALSE, strictMimeTypeCheck |-> TRUE]

IdleValidate ==
    /\ file = [filename |-> <<"a">>, buffer |-> [pattern |-> "text", length |-> 0]]
    /\ validationOptions = DefaultValidationOptions
    /\ validationResult = Idle

IdleProcess ==
    /\ document = [filename |-> <<"a">>,
                   buffer |-> [pattern |-> "text", length |-> 0],
                   payload |-> EmptyString]
    /\ onProgress = [defined |-> FALSE, throwsOn |-> {}]
    /\ serviceOptions = DEFAULT_CHUNKING_OPTIONS
    /\ pc = "idle"
    /\ events = <<>>
    /\ caught = NoError
    /\ validation = Idle
    /\ extractedText = NoText
    /\ chunks = <<>>
    /\ result = Idle
    /\ extractCalls = 0
    /\ chunkCalls = 0

IdleChunk ==
    /\ text = <<>>
    /\ thisOptions = DEFAULT_CHUNKING_OPTIONS
    /\ callOptions = NoOptions
    /\ chunkOutcome = Idle

IdleExtract ==
    /\ extractInput = [filename |-> <<"a">>,
                       buffer |-> [pattern |-> "text", length |-> 0],
                       payload |-> EmptyString]
    /\ extractOutcome = Idle

IdleBatch ==
    /\ files = <<>>
    /\ batchCallback = [defined |-> FALSE, throwsOn |-> {}]
    /\ batchIndex = 0
    /\ batchResults = <<>>
    /\ batchEvents = <<>>
    /\ batchPc = "idle"

IdleConcurrent == invocations = <<>>

IdleRoutes ==
    /\ record = Idle
    /\ chunkRecords = <<>>
    /\ runs = <<>>
    /\ statusResponse = Idle

IdleWorkflow ==
    /\ transitions = <<>>
    /\ calls = <<>>

InitValidate ==
    /\ file \in ValidationFiles
    /\ validationOptions \in [allowExecutables : BOOLEAN, strictMimeTypeCheck : BOOLEAN]
    /\ validationResult = Pending
    /\ IdleChunk
    /\ IdleProcess
    /\ IdleExtract
    /\ IdleBatch
    /\ IdleConcurrent
    /\ IdleRoutes
    /\ IdleWorkflow

ValidateFileReturns ==
    /\ validationResult = Pending
    /\ validationResult' = validateFile(file, validationOptions)
    /\ UNCHANGED <<file, validationOptions>>
    /\ UNCHANGED chunkVars
    /\ UNCHANGED processVars
    /\ UNCHANGED <<extractVars, batchVars, concurrentVars, routeVars, workflowVars>>

NextValidate == ValidateFileReturns

SpecValidate == InitValidate /\ [][NextValidate]_vars

\* ------------------------------------------------------------------------
\* Specification of chunkDocument: a service is constructed, called once
\* ------------------------------------------------------------------------
InitChunk ==
    /\ text \in Texts
    /\ thisOptions \in OptionsSet
    /\ callOptions \in {NoOptions, [maxTokens |-> 90, overlapTokens |-> 0,
                                     minChunkSize |-> 80]}
    /\ chunkOutcome = Pending
    /\ IdleValidate
    /\ IdleProcess
    /\ IdleExtract
    /\ IdleBatch
    /\ IdleConcurrent
    /\ IdleRoutes
    /\ IdleWorkflow

ChunkDocumentReturns ==
    /\ chunkOutcome = Pending
    /\ text # <<>>
    /\ chunkOutcome' = chunkDocument(text, thisOptions, callOptions)
    /\ UNCHANGED <<text, thisOptions, callOptions>>
    /\ UNCHANGED validateVars
    /\ UNCHANGED processVars
    /\ UNCHANGED <<extractVars, batchVars, concurrentVars, routeVars, workflowVars>>

ChunkDocumentThrows ==
    /\ chunkOutcome = Pending
    /\ text = <<>>
    /\ chunkOutcome' = chunkDocument(text, thisOptions, callOptions)
    /\ UNCHANGED <<text, thisOptions, callOptions>>
    /\ UNCHANGED validateVars
    /\ UNCHANGED processVars
    /\ UNCHANGED <<extractVars, batchVars, concurrentVars, routeVars, workflowVars>>

NextChunk == ChunkDocumentReturns \/ ChunkDocumentThrows

SpecChunk == InitChunk /\ [][NextChunk]_vars

\* ------------------------------------------------------------------------
\* Specification of DocumentProcessor.processDocument: one invocation,
\* one action per step between two awaits or callback calls
\* ------------------------------------------------------------------------
ProcessFilenames ==
    { <<"a", "pdf">>, <<"a", "docx">>, <<"a", "txt">>, <<"a", "rtf">>,
      <<"a", "exe">>, <<"a">> }

\* what the format libraries can read from a buffer of each pattern
Payloads(pattern) ==
    CASE pattern \in {"pdf14", "docx"} ->
            {Corrupt, EmptyString, Whitespace, Content(OneParagraph),
             Content(TwoParagraphs)}
      [] pattern = "rtf" -> {EmptyString, Content(OneParagraph)}
      [] pattern = "text" -> {Content(OneParagraph), Content(TwoParagraphs)}
      [] pattern = "blank" -> {Whitespace}
      [] OTHER -> {Corrupt}

ProcessDocuments ==
    { [filename |-> f, buffer |-> [pattern |-> "text", length |-> 0],
       payload |-> EmptyString] : f \in ProcessFilenames }
    \cup
    { d \in [filename : ProcessFilenames,
             buffer : [pattern : {"pdf14", "docx", "rtf", "text", "blank", "png", "mz"},
                       length : {2048, MAX_FILE_SIZE + 1}],
             payload : {Corrupt, EmptyString, Whitespace, Content(OneParagraph),
                        Content(TwoParagraphs)}] :
         d.payload \in Payloads(d.buffer.pattern) }

InitProcess ==
    /\ document \in ProcessDocuments
    /\ onProgress \in Callbacks
    /\ serviceOptions \in {DEFAULT_CHUNKING_OPTIONS,
                            [maxTokens |-> 90, overlapTokens |-> 0,
                             minChunkSize |-> 80]}
    /\ pc = "start"
    /\ events = <<>>
    /\ caught = NoError
    /\ validation = Pending
    /\ extractedText = NoText
    /\ chunks = <<>>
    /\ result = Pending
    /\ extractCalls = 0
    /\ chunkCalls = 0
    /\ IdleChunk
    /\ IdleValidate
    /\ IdleExtract
    /\ IdleBatch
    /\ IdleConcurrent
    /\ IdleRoutes
    /\ IdleWorkflow

\* updateProgress(onProgress, event) inside the try block, then on to next
Emit(event, next) ==
    /\ events' = Append(events, event)
    /\ IF updateProgressThrows(onProgress, event)
       THEN pc' = "catch" /\ caught' = PlainError
       ELSE pc' = next /\ UNCHANGED caught

EmitValidating ==
    /\ pc = "start"
    /\ Emit(ValidatingEvent, "validate")
    /\ UNCHANGED <<validation, extractedText, chunks, result, extractCalls, chunkCalls>>
    /\ UNCHANGED <<processInputs, chunkVars, validateVars>>
    /\ UNCHANGED <<extractVars, batchVars, concurrentVars, routeVars, workflowVars>>

\* await this.extractionService.validateFile(buffer, filename)
ValidationPasses ==
    /\ pc = "validate"
    /\ extractionValidateFile(document).valid
    /\ validation' = extractionValidateFile(document)
    /\ extractCalls' = extractCalls + (IF validation'.probed THEN 1 ELSE 0)
    /\ pc' = "emitExtracting"
    /\ UNCHANGED <<events, caught, extractedText, chunks, result, chunkCalls>>
    /\ UNCHANGED <<processInputs, chunkVars, validateVars>>
    /\ UNCHANGED <<extractVars, batchVars, concurrentVars, routeVars, workflowVars>>

ValidationFails ==
    /\ pc = "validate"
    /\ ~extractionValidateFile(document).valid
    /\ validation' = extractionValidateFile(document)
    /\ extractCalls' = extractCalls + (IF validation'.probed THEN 1 ELSE 0)
    /\ caught' = createError("VALIDATION_FAILED")
    /\ pc' = "catch"
    /\ UNCHANGED <<events, extractedText, chunks, result, chunkCalls>>
    /\ UNCHANGED <<processInputs, chunkVars, validateVars>>
    /\ UNCHANGED <<extractVars, batchVars, concurrentVars, routeVars, workflowVars>>

EmitExtracting ==
    /\ pc = "emitExtracting"
    /\ Emit(ExtractingEvent, "extract")
    /\ UNCHANGED <<validation, extractedText, chunks, result, extractCalls, chunkCalls>>
    /\ UNCHANGED <<processInputs, chunkVars, validateVars>>
    /\ UNCHANGED <<extractVars, batchVars, concurrentVars, routeVars, workflowVars>>

\* await this.extractionService.extractText(buffer, filename), and the
\* EMPTY_DOCUMENT check on what it returned
Extract ==
    /\ pc = "extract"
    /\ extractCalls' = extractCalls + 1
    /\ LET extraction == extractText(document)
       IN  CASE extraction.state = "thrown" ->
                  /\ caught' = extraction.error
                  /\ pc' = "catch"
                  /\ UNCHANGED extractedText
             [] extraction.state = "returned" /\ IsBlank(extraction.text) ->
                  /\ caught' = createError("EMPTY_DOCUMENT")
                  /\ pc' = "catch"
                  /\ UNCHANGED extractedText
             [] OTHER ->
                  /\ extractedText' = extraction.text
                  /\ pc' = "emitChunking"
                  /\ UNCHANGED caught
    /\ UNCHANGED <<events, validation, chunks, result, chunkCalls>>
    /\ UNCHANGED <<processInputs, chunkVars, validateVars>>
    /\ UNCHANGED <<extractVars, batchVars, concurrentVars, routeVars, workflowVars>>

EmitChunking ==
    /\ pc = "emitChunking"
    /\ Emit(ChunkingEvent, "chunk")
    /\ UNCHANGED <<validation, extractedText, chunks, result, extractCalls, chunkCalls>>
    /\ UNCHANGED <<processInputs, chunkVars, validateVars>>
    /\ UNCHANGED <<extractVars, batchVars, concurrentVars, routeVars, workflowVars>>

\* await this.chunkingService.chunkDocument(text), and the CHUNKING_FAILED
\* check on what it returned
Chunk ==
    /\ pc = "chunk"
    /\ chunkCalls' = chunkCalls + 1
    /\ LET chunking == chunkDocument(Body(extractedText), serviceOptions, NoOptions)
       IN  CASE chunking.state = "thrown" ->
                  /\ caught' = [code |-> chunking.code, retryable |-> chunking.retryable]
                  /\ pc' = "catch"
                  /\ UNCHANGED chunks
             [] chunking.state = "returned" /\ Len(chunking.chunks) = 0 ->
                  /\ caught' = createError("CHUNKING_FAILED")
                  /\ pc' = "catch"
                  /\ UNCHANGED chunks
             [] OTHER ->
                  /\ chunks' = chunking.chunks
                  /\ pc' = "emitCompleted"
                  /\ UNCHANGED caught
    /\ UNCHANGED <<events, validation, extractedText, result, extractCalls>>
    /\ UNCHANGED <<processInputs, chunkVars, validateVars>>
    /\ UNCHANGED <<extractVars, batchVars, concurrentVars, routeVars, workflowVars>>

EmitCompleted ==
    /\ pc = "emitCompleted"
    /\ Emit(CompletedEvent, "return")
    /\ UNCHANGED <<validation, extractedText, chunks, result, extractCalls, chunkCalls>>
    /\ UNCHANGED <<processInputs, chunkVars, validateVars>>
    /\ UNCHANGED <<extractVars, batchVars, concurrentVars, routeVars, workflowVars>>

ReturnSuccess ==
    /\ pc = "return"
    /\ result' = [success       |-> TRUE,
                  extractedText |-> extractedText,
                  chunks        |-> chunks,
                  metadata      |-> [fileHash |-> generateFileHash(document.buffer),
                                     fileSize |-> document.buffer.length]]
    /\ pc' = "returned"
    /\ UNCHANGED <<events, caught, validation, extractedText, chunks,
                   extractCalls, chunkCalls>>
    /\ UNCHANGED <<processInputs, chunkVars, validateVars>>
    /\ UNCHANGED <<extractVars, batchVars, concurrentVars, routeVars, workflowVars>>

\* the catch block when the callback takes the failed event
CatchReturnsFailure ==
    /\ pc = "catch"
    /\ ~updateProgressThrows(onProgress, FailedEvent(ProcessedError(caught)))
    /\ events' = Append(events, FailedEvent(ProcessedError(caught)))
    /\ result' = [success |-> FALSE, error |-> ProcessedError(caught)]
    /\ pc' = "returned"
    /\ UNCHANGED <<caught, validation, extractedText, chunks, extractCalls, chunkCalls>>
    /\ UNCHANGED <<processInputs, chunkVars, validateVars>>
    /\ UNCHANGED <<extractVars, batchVars, concurrentVars, routeVars, workflowVars>>

\* the catch block when the callback throws on the failed event: nothing
\* catches it and the promise of processDocument rejects
CatchRaises ==
    /\ pc = "catch"
    /\ updateProgressThrows(onProgress, FailedEvent(ProcessedError(caught)))
    /\ events' = Append(events, FailedEvent(ProcessedError(caught)))
    /\ pc' = "raised"
    /\ UNCHANGED <<caught, validation, extractedText, chunks, result,
                   extractCalls, chunkCalls>>
    /\ UNCHANGED <<processInputs, chunkVars, validateVars>>
    /\ UNCHANGED <<extractVars, batchVars, concurrentVars, routeVars, workflowVars>>

NextProcess ==
    \/ EmitValidating
    \/ ValidationPasses
    \/ ValidationFails
    \/ EmitExtracting
    \/ Extract
    \/ EmitChunking
    \/ Chunk
    \/ EmitCompleted
    \/ ReturnSuccess
    \/ CatchReturnsFailure
    \/ CatchRaises

SpecProcess == InitProcess /\ [][NextProcess]_vars

\* ========================================================================
\* Properties of processDocument (checked under SpecProcess)
\* ========================================================================
Finished == pc \in {"returned", "raised"}

Terminal(event) == event.stage \in {"completed", "failed"}

HasEvent(stage) == \E i \in 1..Len(events) : events[i].stage = stage

ValidationFailed == "valid" \in DOMAIN validation /\ ~validation.valid

\* C1: processDocument never raises: whatever the buffer, the filename and
\* the callback (also one that throws), no exception reaches the caller and
\* the invocation ends by returning a ProcessingResult.
C1_NeverRaises == pc # "raised"

\* C2: whenever validation fails, neither text extraction nor chunking is
\* invoked at any point of the invocation, and the invocation ends by
\* returning success=false after a failed event that carries a
\* VALIDATION_FAILED error.
C2_ValidationFailureStopsPipeline ==
    ValidationFailed =>
        /\ extractCalls = 0
        /\ chunkCalls = 0
        /\ Finished =>
              /\ pc = "returned"
              /\ ~result.success
              /\ result.error.code = "VALIDATION_FAILED"
              /\ \E i \in 1..Len(events) :
                    /\ events[i].stage = "failed"
                    /\ events[i].error = createError("VALIDATION_FAILED")

\* the order of the stages: uploading < extracting < chunking < analyzing
\* < {completed, failed}
StageRank(stage) ==
    CASE stage = "uploading"  -> 0
      [] stage = "extracting" -> 1
      [] stage = "chunking"   -> 2
      [] stage = "analyzing"  -> 3
      [] stage \in {"completed", "failed"} -> 4

\* C3: the progress events of an invocation are in stage order: the stage
\* of an event is never earlier than the stage of the event before it, and
\* between two consecutive events of one stage the progress does not
\* decrease.
C3_StageOrder ==
    \A i \in 1..(Len(events) - 1) :
        /\ StageRank(events[i].stage) <= StageRank(events[i + 1].stage)
        /\ events[i].stage = events[i + 1].stage =>
              events[i].progress <= events[i + 1].progress

\* a successful invocation has emitted its four events
C3_Witness ==
    /\ pc = "returned"
    /\ result.success
    /\ Len(events) = 4
    /\ events[2].stage = "extracting"
    /\ events[3].stage = "chunking"

\* C4: an invocation emits exactly one terminal event, as its last event:
\* completed if and only if it returns success=true, failed if and only if
\* it returns success=false, and no event follows a terminal event.
C4_OneTerminalEvent ==
    /\ \A i \in 1..(Len(events) - 1) : ~Terminal(events[i])
    /\ Finished =>
          /\ Len(events) > 0
          /\ Terminal(events[Len(events)])
          /\ HasEvent("completed") <=> (pc = "returned" /\ result.success)
          /\ HasEvent("failed") <=> (pc = "returned" /\ ~result.success)

\* ========================================================================
\* Properties of chunkDocument (checked under SpecChunk)
\* ========================================================================
ChunksReturned == chunkOutcome.state = "returned"

\* the options createChunks ran with, and the chunks it assembled
EffectiveOptions == MergeOptions(thisOptions, callOptions)
Assembled == AssembledFor(text, thisOptions, callOptions)

\* C5: the list chunkDocument returns has contiguous indices from 0: the
\* chunk at position i of the list has index i, also after chunks below
\* minChunkSize were dropped.
C5_ContiguousIndices ==
    ChunksReturned =>
        \A i \in 1..Len(chunkOutcome.chunks) : chunkOutcome.chunks[i].index = i - 1

\* C6: for a text with content and any options, chunkDocument returns at
\* least one chunk, also when every assembled chunk is below minChunkSize.
C6_MinimumOneChunk ==
    ChunksReturned => Len(chunkOutcome.chunks) >= 1

\* C7: every returned chunk but the last has
\* tokenCount <= maxTokens + overlapTokens.
C7_SoftTokenBudget ==
    ChunksReturned =>
        \A i \in 1..(Len(chunkOutcome.chunks) - 1) :
            chunkOutcome.chunks[i].tokenCount
                <= EffectiveOptions.maxTokens + EffectiveOptions.overlapTokens

\* C8: every returned chunk has tokenCount >= minChunkSize, unless exactly
\* one chunk was assembled, and then that chunk is returned whatever its
\* size.
C8_MinChunkSize ==
    ChunksReturned =>
        IF Len(Assembled) = 1
        THEN chunkOutcome.chunks = Assembled
        ELSE \A i \in 1..Len(chunkOutcome.chunks) :
                chunkOutcome.chunks[i].tokenCount >= EffectiveOptions.minChunkSize

\* several chunks were assembled, the filter dropped one and kept another
C8_Witness ==
    /\ ChunksReturned
    /\ Len(Assembled) > 1
    /\ Len(chunkOutcome.chunks) >= 1
    /\ Len(chunkOutcome.chunks) < Len(Assembled)

\* ========================================================================
\* Properties of FileValidationUtil.validateFile (checked under
\* SpecValidate)
\* ========================================================================
Validated == validationResult.state = "returned"

\* the buffer begins with a PE, ELF or Mach-O signature
BeginsWithExecutableSignature(buffer) ==
    \E signature \in executableSignatures :
        StartsWith(Subarray(buffer, 4), signature)

\* C9: with default options validate returns valid=false for every
\* filename whose extension is in the dangerous-extension denylist and for
\* every buffer that begins with a PE, ELF or Mach-O signature.
C9_ExecutablesRejected ==
    (/\ Validated
     /\ validationOptions = DefaultValidationOptions
     /\ \/ getFileExtension(file.filename) \in dangerousExtensions
        \/ BeginsWithExecutableSignature(file.buffer))
        => ~validationResult.valid

\* C10: with strict MIME checking, a sniffed MIME type outside the expected
\* set of the extension is a hard error (valid=false), except for the
\* commonly-mislabeled pairs, where it is a warning and adds no error.
C10_StrictMimeMismatch ==
    LET extension == getFileExtension(file.filename)
        detectedType == fileTypeFromBuffer(file.buffer)
    IN  (/\ Validated
         /\ validationOptions.strictMimeTypeCheck
         /\ extension \in SUPPORTED_FILE_TYPES
         /\ detectedType # Undefined
         /\ detectedType \notin MIME_TYPE_MAP(extension))
        => IF isLikelyMislabeled(detectedType, extension)
           THEN /\ ~InSeq("MIME_MISMATCH", validationResult.errors)
                /\ InSeq("MIME_DIFFERS", validationResult.warnings)
           ELSE /\ InSeq("MIME_MISMATCH", validationResult.errors)
                /\ ~validationResult.valid

\* ------------------------------------------------------------------------
\* Specification of TextExtractionService.extractText: one call
\* ------------------------------------------------------------------------
ExtractDocuments ==
    { [filename |-> f, buffer |-> [pattern |-> "text", length |-> 0],
       payload |-> EmptyString] : f \in Filenames }
    \cup
    { d \in [filename : Filenames,
             buffer : [pattern : {"pdf14", "docx", "rtf", "text", "blank", "png", "mz"},
                       length : {2048}],
             payload : {Corrupt, EmptyString, Whitespace, Content(OneParagraph),
                        Content(TwoParagraphs)}] :
         d.payload \in Payloads(d.buffer.pattern) }

\* what a call of extractText settles to, with the file type detectFileType
\* resolved when it resolved one
ExtractTextCall(doc) ==
    LET detected == detectFileType(doc.buffer, doc.filename)
    IN  IF detected.state = "thrown" THEN extractText(doc)
        ELSE extractText(doc) @@ [fileType |-> detected.fileType]

InitExtract ==
    /\ extractInput \in ExtractDocuments
    /\ extractOutcome = Pending
    /\ IdleChunk
    /\ IdleValidate
    /\ IdleProcess
    /\ IdleBatch
    /\ IdleConcurrent
    /\ IdleRoutes
    /\ IdleWorkflow

ExtractTextReturns ==
    /\ extractOutcome = Pending
    /\ extractText(extractInput).state = "returned"
    /\ extractOutcome' = ExtractTextCall(extractInput)
    /\ UNCHANGED extractInput
    /\ UNCHANGED <<chunkVars, validateVars, processVars, batchVars, concurrentVars, routeVars, workflowVars>>

ExtractTextThrows ==
    /\ extractOutcome = Pending
    /\ extractText(extractInput).state = "thrown"
    /\ extractOutcome' = ExtractTextCall(extractInput)
    /\ UNCHANGED extractInput
    /\ UNCHANGED <<chunkVars, validateVars, processVars, batchVars, concurrentVars, routeVars, workflowVars>>

NextExtract == ExtractTextReturns \/ ExtractTextThrows

SpecExtract == InitExtract /\ [][NextExtract]_vars

\* ========================================================================
\* Properties of extractText (checked under SpecExtract)
\* ========================================================================
\* C11: whenever extractText returns normally, the returned text has
\* non-whitespace content; empty or whitespace-only text makes it fail.
C11_ExtractionNonEmpty ==
    extractOutcome.state = "returned" => ~IsBlank(extractOutcome.text)

\* the supported type the sniffed MIME type of a buffer maps to, if any
SniffedFileType(buffer) ==
    LET mime == fileTypeFromBuffer(buffer)
    IN  CASE mime = "application/pdf" -> "pdf"
          [] mime = "application/vnd.openxmlformats-officedocument.wordprocessingml.document" -> "docx"
          [] mime = "application/msword" -> "doc"
          [] mime = "text/plain" -> "txt"
          [] mime \in {"application/rtf", "text/rtf"} -> "rtf"
          [] OTHER -> Undefined

\* C14: the sniffed MIME type decides the file type when it maps to a
\* supported type, otherwise the filename extension does, and when neither
\* resolves extractText fails with code UNKNOWN_FILE_TYPE.
C14_FileTypeResolution ==
    LET sniffed == SniffedFileType(extractInput.buffer)
        extension == getFileExtension(extractInput.filename)
    IN  extractOutcome.state \in {"returned", "thrown"} =>
           CASE sniffed # Undefined ->
                   "fileType" \in DOMAIN extractOutcome
                   /\ extractOutcome.fileType = sniffed
             [] extension \in SUPPORTED_FILE_TYPES ->
                   "fileType" \in DOMAIN extractOutcome
                   /\ extractOutcome.fileType = extension
             [] OTHER ->
                   /\ extractOutcome.state = "thrown"
                   /\ extractOutcome.error.code = "UNKNOWN_FILE_TYPE"

\* ========================================================================
\* Further properties of processDocument (checked under SpecProcess)
\* ========================================================================
\* the ProcessingErrors an invocation has handed out so far: those of its
\* failed events and the one of its result
ReportedErrors ==
    { events[i].error : i \in { j \in 1..Len(events) : events[j].stage = "failed" } }
    \cup (IF pc = "returned" /\ ~result.success THEN {result.error} ELSE {})

\* the infrastructure codes the spec allows to be retryable
RetryableAllowList == {"NETWORK_ERROR", "TIMEOUT", "RATE_LIMITED", "TEMPORARY_FAILURE"}

StartFrame(doc, callback) ==
    [document      |-> doc,
     onProgress    |-> callback,
     pc            |-> "start",
     events        |-> <<>>,
     caught        |-> NoError,
     validation    |-> Pending,
     extractedText |-> NoText,
     chunks        |-> <<>>,
     result        |-> Pending,
     extractCalls  |-> 0,
     chunkCalls    |-> 0]

FrameFinished(frame) == frame.pc \in {"returned", "raised"}

\* updateProgress(onProgress, event) inside the try block, then on to next
FrameEmit(frame, event, next) ==
    IF updateProgressThrows(frame.onProgress, event)
    THEN [frame EXCEPT !.events = Append(@, event), !.pc = "catch",
                       !.caught = PlainError]
    ELSE [frame EXCEPT !.events = Append(@, event), !.pc = next]

\* const validation = await this.extractionService.validateFile(...), and
\* what the invocation does with it
FrameValidated(frame, validated) ==
    IF validated.valid
    THEN [frame EXCEPT !.validation = validated,
                       !.extractCalls = @ + (IF validated.probed THEN 1 ELSE 0),
                       !.pc = "emitExtracting"]
    ELSE [frame EXCEPT !.validation = validated,
                       !.extractCalls = @ + (IF validated.probed THEN 1 ELSE 0),
                       !.caught = createError("VALIDATION_FAILED"),
                       !.pc = "catch"]

FrameValidate(frame) ==
    FrameValidated(frame, extractionValidateFile(frame.document))

\* await this.extractionService.extractText(...), and the EMPTY_DOCUMENT
\* check on what it returned
FrameExtracted(frame, extraction) ==
    CASE extraction.state = "thrown" ->
            [frame EXCEPT !.extractCalls = @ + 1,
                          !.caught = extraction.error, !.pc = "catch"]
      [] extraction.state = "returned" /\ IsBlank(extraction.text) ->
            [frame EXCEPT !.extractCalls = @ + 1,
                          !.caught = createError("EMPTY_DOCUMENT"), !.pc = "catch"]
      [] OTHER ->
            [frame EXCEPT !.extractCalls = @ + 1,
                          !.extractedText = extraction.text, !.pc = "emitChunking"]

FrameExtract(frame) == FrameExtracted(frame, extractText(frame.document))

\* await this.chunkingService.chunkDocument(text), and the CHUNKING_FAILED
\* check on what it returned
FrameChunked(frame, chunking) ==
    CASE chunking.state = "thrown" ->
            [frame EXCEPT !.chunkCalls = @ + 1,
                          !.caught = [code |-> chunking.code,
                                      retryable |-> chunking.retryable],
                          !.pc = "catch"]
      [] chunking.state = "returned" /\ Len(chunking.chunks) = 0 ->
            [frame EXCEPT !.chunkCalls = @ + 1,
                          !.caught = createError("CHUNKING_FAILED"), !.pc = "catch"]
      [] OTHER ->
            [frame EXCEPT !.chunkCalls = @ + 1,
                          !.chunks = chunking.chunks, !.pc = "emitCompleted"]

FrameChunk(frame, options) ==
    FrameChunked(frame, chunkDocument(Body(frame.extractedText), options, NoOptions))

FrameReturn(frame) ==
    [frame EXCEPT
        !.result = [success       |-> TRUE,
                    extractedText |-> frame.extractedText,
                    chunks        |-> frame.chunks,
                    metadata      |-> [fileHash |-> generateFileHash(frame.document.buffer),
                                       fileSize |-> frame.document.buffer.length]],
        !.pc = "returned"]

\* the catch block: the failed event is reported, and the failure returned
\* unless the callback throws on it
FrameCaught(frame, processedError) ==
    IF updateProgressThrows(frame.onProgress, FailedEvent(processedError))
    THEN [frame EXCEPT !.events = Append(@, FailedEvent(processedError)),
                       !.pc = "raised"]
    ELSE [frame EXCEPT !.events = Append(@, FailedEvent(processedError)),
                       !.result = [success |-> FALSE, error |-> processedError],
                       !.pc = "returned"]

FrameCatch(frame) == FrameCaught(frame, ProcessedError(frame.caught))

Advance(frame, options) ==
    CASE frame.pc = "start"          -> FrameEmit(frame, ValidatingEvent, "validate")
      [] frame.pc = "validate"       -> FrameValidate(frame)
      [] frame.pc = "emitExtracting" -> FrameEmit(frame, ExtractingEvent, "extract")
      [] frame.pc = "extract"        -> FrameExtract(frame)
      [] frame.pc = "emitChunking"   -> FrameEmit(frame, ChunkingEvent, "chunk")
      [] frame.pc = "chunk"          -> FrameChunk(frame, options)
      [] frame.pc = "emitCompleted"  -> FrameEmit(frame, CompletedEvent, "return")
      [] frame.pc = "return"         -> FrameReturn(frame)
      [] frame.pc = "catch"          -> FrameCatch(frame)
      [] OTHER                       -> frame

\* an invocation run from a frame to its end with nothing in between
RECURSIVE RunAlone(_, _)
RunAlone(frame, options) ==
    IF FrameFinished(frame) THEN frame
    ELSE RunAlone(Advance(frame, options), options)

\* ------------------------------------------------------------------------
\* Specification of DocumentProcessor.processMultipleDocuments: one call;
\* each item is one processDocument invocation, run by the actions of
\* SpecProcess on the variables of processDocument
\* ------------------------------------------------------------------------
\* the largest number of files of a batch
MaxFiles == 2

\* a text file, an empty buffer, a PDF without text, an unreadable DOCX
BatchDocuments ==
    { [filename |-> <<"a", "txt">>, buffer |-> [pattern |-> "text", length |-> 2048],
       payload |-> Content(OneParagraph)],
      [filename |-> <<"a", "txt">>, buffer |-> [pattern |-> "text", length |-> 0],
       payload |-> EmptyString],
      [filename |-> <<"a", "pdf">>, buffer |-> [pattern |-> "pdf14", length |-> 2048],
       payload |-> Whitespace],
      [filename |-> <<"a", "docx">>, buffer |-> [pattern |-> "docx", length |-> 2048],
       payload |-> Corrupt] }

\* no callback, one that returns, one that throws on the failed event
BatchCallbacks ==
    { [defined |-> FALSE, throwsOn |-> {}],
      [defined |-> TRUE, throwsOn |-> {}],
      [defined |-> TRUE, throwsOn |-> {CallbackKey(FailedEvent(NoError))}] }

\* onProgress ? (progress) => onProgress(i, progress) : undefined
\* the wrapper throws when the callback it calls throws
WrapCallback(callback, i) == callback

\* the calls onProgress(i, progress) the events of item i make
Tagged(i, itemEvents) == [k \in 1..Len(itemEvents) |-> <<i, itemEvents[k]>>]

InitBatch ==
    /\ files \in UNION { [1..n -> BatchDocuments] : n \in 0..MaxFiles }
    /\ batchCallback \in BatchCallbacks
    /\ batchIndex = 0
    /\ batchResults = <<>>
    /\ batchEvents = <<>>
    /\ batchPc = "loop"
    /\ IdleProcess
    /\ IdleChunk
    /\ IdleValidate
    /\ IdleExtract
    /\ IdleConcurrent
    /\ IdleRoutes
    /\ IdleWorkflow

\* i < files.length: processDocument(buffer, filename, wrapper) is called
StartItem ==
    /\ batchPc = "loop"
    /\ batchIndex < Len(files)
    /\ document' = files[batchIndex + 1]
    /\ onProgress' = WrapCallback(batchCallback, batchIndex)
    /\ pc' = "start"
    /\ events' = <<>>
    /\ caught' = NoError
    /\ validation' = Pending
    /\ extractedText' = NoText
    /\ chunks' = <<>>
    /\ result' = Pending
    /\ extractCalls' = 0
    /\ chunkCalls' = 0
    /\ batchPc' = "item"
    /\ UNCHANGED <<serviceOptions, files, batchCallback, batchIndex, batchResults,
                   batchEvents>>
    /\ UNCHANGED <<chunkVars, validateVars, extractVars, concurrentVars, routeVars, workflowVars>>

\* the awaited processDocument returned: results.push(result); i++
PushResult ==
    /\ batchPc = "item"
    /\ pc = "returned"
    /\ batchResults' = Append(batchResults, result)
    /\ batchEvents' = batchEvents \o
                        (IF batchCallback.defined THEN Tagged(batchIndex, events)
                         ELSE <<>>)
    /\ batchIndex' = batchIndex + 1
    /\ batchPc' = "loop"
    /\ UNCHANGED <<files, batchCallback>>
    /\ UNCHANGED <<processVars, chunkVars, validateVars, extractVars, concurrentVars, routeVars, workflowVars>>

\* the awaited processDocument rejected: nothing in the loop catches it
ItemRaises ==
    /\ batchPc = "item"
    /\ pc = "raised"
    /\ batchEvents' = batchEvents \o
                        (IF batchCallback.defined THEN Tagged(batchIndex, events)
                         ELSE <<>>)
    /\ batchPc' = "raised"
    /\ UNCHANGED <<files, batchCallback, batchIndex, batchResults>>
    /\ UNCHANGED <<processVars, chunkVars, validateVars, extractVars, concurrentVars, routeVars, workflowVars>>

\* i = files.length: return results
BatchReturns ==
    /\ batchPc = "loop"
    /\ batchIndex = Len(files)
    /\ batchPc' = "returned"
    /\ UNCHANGED <<files, batchCallback, batchIndex, batchResults, batchEvents>>
    /\ UNCHANGED <<processVars, chunkVars, validateVars, extractVars, concurrentVars, routeVars, workflowVars>>

NextBatch ==
    \/ StartItem
    \/ EmitValidating
    \/ ValidationPasses
    \/ ValidationFails
    \/ EmitExtracting
    \/ Extract
    \/ EmitChunking
    \/ Chunk
    \/ EmitCompleted
    \/ ReturnSuccess
    \/ CatchReturnsFailure
    \/ CatchRaises
    \/ PushResult
    \/ ItemRaises
    \/ BatchReturns

SpecBatch == InitBatch /\ [][NextBatch]_vars

\* ========================================================================
\* Properties of processMultipleDocuments (checked under SpecBatch)
\* ========================================================================
\* what processDocument does with files[i] when it is run on its own
ItemAlone(i) ==
    RunAlone(StartFrame(files[i + 1], WrapCallback(batchCallback, i)), serviceOptions)

RECURSIVE CallsOfItems(_)
CallsOfItems(n) ==
    IF n = 0 \/ ~batchCallback.defined THEN <<>>
    ELSE CallsOfItems(n - 1) \o Tagged(n - 1, ItemAlone(n - 1).events)

\* C13: the items are processed one after another in input order: an item
\* runs only when the results of all items before it are in the array, the
\* array returned has one result per file and results[i] is the result of
\* files[i], every call of the callback carries the index of the item whose
\* event it reports, and an item that fails does not keep the items after
\* it from being processed (the batch runs to its end).
C13_BatchSequential ==
    /\ batchPc = "item" => Len(batchResults) = batchIndex
    /\ Len(batchResults) <= Len(files)
    /\ \A i \in 0..(Len(batchResults) - 1) : batchResults[i + 1] = ItemAlone(i).result
    /\ batchPc = "loop" => batchEvents = CallsOfItems(batchIndex)
    /\ batchPc = "returned" => Len(batchResults) = Len(files)
    /\ batchPc # "raised"

\* ------------------------------------------------------------------------
\* Specification of two processDocument invocations on one
\* DocumentProcessor, interleaved at their steps in any order.  What the
\* invocations share is the processor with its two services; the services
\* hold their options and nothing else, and no step assigns to them.
\* ------------------------------------------------------------------------
ConcurrentArguments ==
    [document : BatchDocuments, onProgress : BatchCallbacks]

\* the frame a step of invocation i works on with a frame shared by all
\* invocations
Frame_Shared(frames, i) == frames[1]

\* the frame a step of invocation i works on: the arguments and the
\* const/let locals of processDocument belong to the invocation
Frame(frames, i) == frames[i]

InitConcurrent ==
    /\ invocations \in
          { [arguments  |-> arguments,
             frames     |-> [i \in 1..2 |-> StartFrame(arguments[i].document,
                                                       arguments[i].onProgress)],
             overlapped |-> FALSE] :
                arguments \in [1..2 -> ConcurrentArguments] }
    /\ IdleProcess
    /\ IdleChunk
    /\ IdleValidate
    /\ IdleExtract
    /\ IdleBatch
    /\ IdleRoutes
    /\ IdleWorkflow

\* invocation i is between its first step and its end
InFlight(frame) == ~FrameFinished(frame) /\ frame.pc # "start"

\* invocation i takes its next step
StepInvocation(i) ==
    /\ ~FrameFinished(invocations.frames[i])
    /\ invocations' =
          [invocations EXCEPT
              !.frames[i] = Advance(Frame(invocations.frames, i), serviceOptions),
              !.overlapped = @ \/ InFlight(invocations.frames[3 - i])]
    /\ UNCHANGED <<processVars, chunkVars, validateVars, extractVars, batchVars,
                   routeVars, workflowVars>>

NextConcurrent == StepInvocation(1) \/ StepInvocation(2)

SpecConcurrent == InitConcurrent /\ [][NextConcurrent]_vars

WordSignatures ==
    { <<80, 75, 3, 4>>, <<80, 75, 5, 6>>, <<80, 75, 7, 8>>,
      <<208, 207, 17, 224, 161, 177, 26, 225>> }

\* C16: validate returns valid=false for every non-empty input with
\* extension docx or doc whose leading bytes match neither a ZIP signature
\* nor the OLE signature, whatever the length of the buffer.
C16_WordSignatureRequired ==
    (/\ Validated
     /\ getFileExtension(file.filename) \in {"docx", "doc"}
     /\ file.buffer.length > 0
     /\ \A signature \in WordSignatures :
           ~StartsWith(Subarray(file.buffer, 8), signature))
        => ~validationResult.valid

\* ========================================================================
\* Further properties of chunkDocument (checked under SpecChunk)
\* ========================================================================
\* C17: every chunk chunkDocument returns has startPosition < endPosition,
\* also a chunk that starts with overlap units and a chunk built from
\* sentence-split or force-split units.
C17_StartBeforeEnd ==
    ChunksReturned =>
        \A i \in 1..Len(chunkOutcome.chunks) :
            chunkOutcome.chunks[i].startPosition < chunkOutcome.chunks[i].endPosition

\* a returned chunk starts with the unit its predecessor ended with, and
\* another returned chunk is a single sentence of a split paragraph
C17_Witness ==
    /\ ChunksReturned
    /\ \E i \in 2..Len(chunkOutcome.chunks) :
          /\ chunkOutcome.chunks[i].unitCount >= 2
          /\ chunkOutcome.chunks[i].units[1]
                = chunkOutcome.chunks[i - 1].units[chunkOutcome.chunks[i - 1].unitCount]
    /\ \E i \in 1..Len(chunkOutcome.chunks) :
          /\ chunkOutcome.chunks[i].startPosition > 0
          /\ chunkOutcome.chunks[i].tokenCount > EffectiveOptions.maxTokens

\* the trailing units of a chunk, from the end until their tokens reach
\* overlapTokens: the shortest such suffix, or all units
TrailingUnits(units, overlapTokens) ==
    LET enough == { n \in 1..Len(units) :
                       UnitTokens(SubSeq(units, Len(units) - n + 1, Len(units)))
                          >= overlapTokens }
        n == IF enough = {} THEN Len(units)
             ELSE CHOOSE m \in enough : \A k \in enough : m <= k
    IN  SubSeq(units, Len(units) - n + 1, Len(units))

BeginsWith(units, prefix) ==
    /\ Len(units) >= Len(prefix)
    /\ SubSeq(units, 1, Len(prefix)) = prefix

\* C18: with overlapTokens > 0, every chunk assembled after the first
\* begins with the trailing units of the chunk closed before it, unchanged
\* and in order, whichever path closed that chunk.
C18_OverlapSeeding ==
    (ChunksReturned /\ EffectiveOptions.overlapTokens > 0) =>
        \A i \in 2..Len(Assembled) :
            BeginsWith(Assembled[i].units,
                       TrailingUnits(Assembled[i - 1].units,
                                     EffectiveOptions.overlapTokens))

\* the type with the highest unit count among the units, the first seen
\* among the units when several types share the highest count
FirstSeenDominantType(units) ==
    LET highest == { ty \in SemanticTypes :
                        \A other \in SemanticTypes :
                            TypeCount(units, ty) >= TypeCount(units, other) }
        first == CHOOSE i \in 1..Len(units) :
                    /\ units[i].type \in highest
                    /\ \A j \in 1..(i - 1) : units[j].type \notin highest
    IN  units[first].type

\* C19: the semanticType of a chunk is the type most of its units have,
\* and of several types with the highest count the one seen first among
\* the chunk's units.
C19_DominantTypeFirstSeen ==
    ChunksReturned =>
        \A i \in 1..Len(chunkOutcome.chunks) :
            chunkOutcome.chunks[i].semanticType
                = FirstSeenDominantType(chunkOutcome.chunks[i].units)

\* ========================================================================
\* Further properties of processDocument (checked under SpecProcess)
\* ========================================================================
\* validation succeeded and processDocument's own extractText call (the one
\* after the validation's probe) returned empty or whitespace-only text
ExtractionReturnedBlank ==
    /\ "valid" \in DOMAIN validation
    /\ validation.valid
    /\ extractCalls > (IF validation.probed THEN 1 ELSE 0)
    /\ extractText(document).state = "returned"
    /\ IsBlank(extractText(document).text)

\* chunkDocument was invoked and returned no chunk
ChunkingReturnedNone ==
    /\ chunkCalls > 0
    /\ chunkDocument(Body(extractedText), serviceOptions, NoOptions).state = "returned"
    /\ Len(chunkDocument(Body(extractedText), serviceOptions, NoOptions).chunks) = 0

\* the invocation returned success=false with this code, not retryable
FailsWith(code) ==
    /\ pc = "returned"
    /\ ~result.success
    /\ result.error.code = code
    /\ ~result.error.retryable

\* C20: after a successful validation, blank extracted text ends the
\* invocation with the result success=false, EMPTY_DOCUMENT, and
\* chunkDocument is never invoked; zero chunks end it with success=false,
\* CHUNKING_FAILED; both errors are not retryable and no completed event is
\* emitted.
C20_EmptyDocumentAndChunkingFailed ==
    /\ ExtractionReturnedBlank =>
          /\ chunkCalls = 0
          /\ ~HasEvent("completed")
          /\ Finished => FailsWith("EMPTY_DOCUMENT")
    /\ ChunkingReturnedNone =>
          /\ ~HasEvent("completed")
          /\ Finished => FailsWith("CHUNKING_FAILED")

\* C30: a ProcessingResult returned by processDocument with success=true
\* has a non-empty list of chunks, extracted text with content, metadata
\* with the SHA-256 hash of the buffer, and no error; one with
\* success=false has an error with a code and a retryable flag, and no
\* chunks, no extracted text and no metadata.
C30_ResultWellFormed ==
    pc = "returned" =>
        IF result.success
        THEN /\ DOMAIN result = {"success", "extractedText", "chunks", "metadata"}
             /\ Len(result.chunks) > 0
             /\ result.extractedText.kind = "content"
             /\ Body(result.extractedText) # <<>>
             /\ result.metadata.fileHash = generateFileHash(document.buffer)
        ELSE /\ DOMAIN result = {"success", "error"}
             /\ "code" \in DOMAIN result.error
             /\ "retryable" \in DOMAIN result.error
             /\ result.error.retryable \in BOOLEAN

\* a result with chunks, returned to a caller that passed a callback
C30_Witness ==
    /\ pc = "returned"
    /\ result.success
    /\ Len(result.chunks) > 0
    /\ onProgress.defined
    /\ Len(events) = 4

\* ========================================================================
\* The document routes: POST /upload with its background task, POST and
\* PATCH .../process with theirs, GET .../status, on the one Document row
\* of one uploaded file and its DocumentChunk rows.  A request handler or a
\* background task runs from one await to the next; the record store
\* handles one query at a time.
\* ========================================================================
\* the largest number of seconds between a document's start time and a
\* status request; the number of background runs that can be in flight
MaxElapsed == 13
MaxRuns == 2

\* the callback both routes hand to processDocument: it logs and returns
RouteCallback == [defined |-> TRUE, throwsOn |-> {}]

\* the uploaded file: a text file, a 4 MiB PDF without text, an unreadable
\* DOCX
UploadedDocuments ==
    { [filename |-> <<"a", "txt">>, buffer |-> [pattern |-> "text", length |-> 2048],
       payload |-> Content(OneParagraph)],
      [filename |-> <<"a", "pdf">>, buffer |-> [pattern |-> "pdf14", length |-> 4194304],
       payload |-> Whitespace],
      [filename |-> <<"a", "docx">>, buffer |-> [pattern |-> "docx", length |-> 2048],
       payload |-> Corrupt] }

\* prisma.document.create of the upload route
CreatedRecord(doc) ==
    [upload              |-> doc,
     fileType            |-> LastPart(doc.filename),
     fileSize            |-> doc.buffer.length,
     status              |-> "UPLOADED",
     workflowStatus      |-> "DRAFT",
     processingStartedAt |-> Null,
     chunkCount          |-> 0,
     uploadedBy          |-> "analyst",
     currentAssignee     |-> Null]

NoRun == [pc |-> "none"]

\* a run that has ended; one that ended in the else branch is kept with
\* the result the pipeline gave it
Done == [pc |-> "done"]
DoneWith(returned) == [pc |-> "done", result |-> returned]

\* a background run: kind says which function it is ("upload" is
\* processDocumentInBackground, the others processDocumentAsync), snapshot
\* is what the function reads of the row its route read, frame is its
\* processDocument invocation
NewRun(kind, row, at) ==
    [pc       |-> at,
     kind     |-> kind,
     snapshot |-> [workflowStatus |-> row.workflowStatus,
                   uploadedBy     |-> row.uploadedBy],
     frame    |-> StartFrame(row.upload, RouteCallback)]

SlotFree(r) == runs[r].pc \in {"none", "done"}
HasFreeSlot == \E r \in 1..MaxRuns : SlotFree(r)
FreeSlot == CHOOSE r \in 1..MaxRuns : SlotFree(r) /\ \A q \in 1..(r - 1) : ~SlotFree(q)

\* Math.ceil(a / b) for positive integers
CeilDiv(a, b) == (a + b - 1) \div b

\* timePerMB[fileType] || 2.0, in tenths of a second
TimePerMBTenths(fileType) ==
    CASE fileType = "pdf"  -> 30
      [] fileType = "docx" -> 20
      [] fileType = "doc"  -> 25
      [] fileType = "txt"  -> 10
      [] fileType = "rtf"  -> 15
      [] OTHER             -> 20

\* estimateProcessingTime of the status route
estimateProcessingTime(fileSize, fileType) ==
    LET ceiled == CeilDiv(fileSize * TimePerMBTenths(fileType), 10 * 1024 * 1024)
    IN  IF ceiled > 10 THEN ceiled ELSE 10

\* the percentage without the cap at 95
ProgressPercentage_Uncapped(elapsedSeconds, estimatedTotalTime) ==
    (200 * elapsedSeconds + estimatedTotalTime) \div (2 * estimatedTotalTime)

\* Math.round(Math.min(95, (elapsedSeconds / estimatedTotalTime) * 100))
ProgressPercentage(elapsedSeconds, estimatedTotalTime) ==
    IF elapsedSeconds * 100 >= 95 * estimatedTotalTime THEN 95
    ELSE (200 * elapsedSeconds + estimatedTotalTime) \div (2 * estimatedTotalTime)

\* case "PROCESSING" answering from the pipeline's latest progress event
ProcessingProgress_Live(doc, elapsedSeconds) ==
    LET latest == { runs[r].frame.events[Len(runs[r].frame.events)] :
                       r \in { q \in 1..MaxRuns :
                                  /\ runs[q].pc = "pipeline"
                                  /\ runs[q].frame.events # <<>> } }
    IN  IF latest = {}
        THEN [stage |-> "extracting", progress |-> 0, error |-> NoError]
        ELSE CHOOSE event \in latest : TRUE

\* case "PROCESSING" of mapDocumentStatusToProgress
ProcessingProgress(doc, elapsedSeconds) ==
    LET estimatedTotalTime == estimateProcessingTime(doc.fileSize, doc.fileType)
    IN  [stage    |-> IF elapsedSeconds * 100 > 60 * estimatedTotalTime THEN "analyzing"
                      ELSE IF elapsedSeconds * 100 > 30 * estimatedTotalTime THEN "chunking"
                      ELSE "extracting",
         progress |-> ProgressPercentage(elapsedSeconds, estimatedTotalTime),
         error    |-> NoError]

\* mapDocumentStatusToProgress (stage, progress and error of the answer)
mapDocumentStatusToProgress(doc, elapsedSeconds) ==
    CASE doc.status = "UPLOADED" ->
            [stage |-> "uploading", progress |-> 100, error |-> NoError]
      [] doc.status = "PROCESSING" -> ProcessingProgress(doc, elapsedSeconds)
      [] doc.status = "COMPLETED" ->
            [stage |-> "completed", progress |-> 100, error |-> NoError]
      [] doc.status = "FAILED" ->
            [stage |-> "failed", progress |-> 0,
             error |-> [code |-> "PROCESSING_FAILED", retryable |-> TRUE]]
      [] OTHER -> [stage |-> "uploading", progress |-> 0, error |-> NoError]

\* the state when POST /upload has created the row and started its
\* background task
InitRoutes ==
    /\ record \in { CreatedRecord(doc) : doc \in UploadedDocuments }
    /\ chunkRecords = <<>>
    /\ runs = [r \in 1..MaxRuns |->
                  IF r = 1 THEN NewRun("upload", record, "markProcessing") ELSE NoRun]
    /\ statusResponse = Pending
    /\ IdleWorkflow
    /\ IdleProcess
    /\ IdleChunk
    /\ IdleValidate
    /\ IdleExtract
    /\ IdleBatch
    /\ IdleConcurrent

RouteFrame ==
    UNCHANGED <<processVars, chunkVars, validateVars, extractVars, batchVars,
                concurrentVars, workflowVars>>

\* GET .../status: the row as it is now, and the time since its start
StatusGet ==
    /\ \E elapsedSeconds \in 0..MaxElapsed :
          statusResponse' = mapDocumentStatusToProgress(record, elapsedSeconds)
    /\ UNCHANGED <<record, chunkRecords, runs>>
    /\ RouteFrame

\* POST .../process: 409 for PROCESSING, the chunk count for COMPLETED,
\* otherwise processDocumentAsync(document) is started with the row read
PostProcess ==
    /\ record.status \notin {"PROCESSING", "COMPLETED"}
    /\ HasFreeSlot
    /\ runs' = [runs EXCEPT ![FreeSlot] = NewRun("process", record, "markProcessing")]
    /\ UNCHANGED <<record, chunkRecords, statusResponse>>
    /\ RouteFrame

\* PATCH .../process up to its first write: 400 unless the row is FAILED
PatchRetry ==
    /\ record.status = "FAILED"
    /\ HasFreeSlot
    /\ runs' = [runs EXCEPT ![FreeSlot] = NewRun("retry", record, "reset")]
    /\ UNCHANGED <<record, chunkRecords, statusResponse>>
    /\ RouteFrame

\* PATCH: the row is reset, then processDocumentAsync(document) is started
RunResets(r) ==
    /\ runs[r].pc = "reset"
    /\ record' = [record EXCEPT !.status = "UPLOADED", !.processingStartedAt = Null]
    /\ runs' = [runs EXCEPT ![r].pc = "markProcessing"]
    /\ UNCHANGED <<chunkRecords, statusResponse>>
    /\ RouteFrame

\* the first write of a background task
RunMarksProcessing(r) ==
    /\ runs[r].pc = "markProcessing"
    /\ record' = [record EXCEPT !.status = "PROCESSING", !.processingStartedAt = "date"]
    /\ runs' = [runs EXCEPT ![r].pc = IF runs[r].kind = "upload" THEN "pipeline"
                                      ELSE "download"]
    /\ UNCHANGED <<chunkRecords, statusResponse>>
    /\ RouteFrame

\* storageService.downloadFile succeeded
RunDownloads(r) ==
    /\ runs[r].pc = "download"
    /\ runs' = [runs EXCEPT ![r].pc = "pipeline"]
    /\ UNCHANGED <<record, chunkRecords, statusResponse>>
    /\ RouteFrame

\* storageService.downloadFile failed: throw new Error(...)
RunDownloadFails(r) ==
    /\ runs[r].pc = "download"
    /\ runs' = [runs EXCEPT ![r].pc = "catch"]
    /\ UNCHANGED <<record, chunkRecords, statusResponse>>
    /\ RouteFrame

\* one step of await processor.processDocument(...)
RunPipelineStep(r) ==
    /\ runs[r].pc = "pipeline"
    /\ ~FrameFinished(runs[r].frame)
    /\ runs' = [runs EXCEPT ![r].frame = Advance(runs[r].frame, DEFAULT_CHUNKING_OPTIONS)]
    /\ UNCHANGED <<record, chunkRecords, statusResponse>>
    /\ RouteFrame

\* the pipeline returned: result.success && result.chunks && result.metadata
PipelineSucceeded(r) ==
    /\ runs[r].pc = "pipeline"
    /\ runs[r].frame.pc = "returned"
    /\ runs[r].frame.result.success

PipelineFailed(r) ==
    /\ runs[r].pc = "pipeline"
    /\ runs[r].frame.pc = "returned"
    /\ ~runs[r].frame.result.success

RunSavesCompleted(r) ==
    /\ PipelineSucceeded(r)
    /\ record' = [record EXCEPT !.status = "COMPLETED",
                                !.chunkCount = Len(runs[r].frame.result.chunks)]
    /\ runs' = [runs EXCEPT ![r].pc = IF runs[r].kind = "upload" THEN "createChunks"
                                      ELSE "deleteChunks"]
    /\ UNCHANGED <<chunkRecords, statusResponse>>
    /\ RouteFrame

\* prisma.documentChunk.deleteMany (processDocumentAsync only)
RunDeletesChunks(r) ==
    /\ runs[r].pc = "deleteChunks"
    /\ chunkRecords' = <<>>
    /\ runs' = [runs EXCEPT ![r].pc = "createChunks"]
    /\ UNCHANGED <<record, statusResponse>>
    /\ RouteFrame

\* prisma.documentChunk.createMany
RunCreatesChunks(r) ==
    /\ runs[r].pc = "createChunks"
    /\ chunkRecords' = chunkRecords \o
          [i \in 1..Len(runs[r].frame.result.chunks) |->
              runs[r].frame.result.chunks[i].index]
    /\ runs' = [runs EXCEPT ![r] = IF runs[r].kind = "upload" THEN Done
                                   ELSE [runs[r] EXCEPT !.pc = "workflow"]]
    /\ UNCHANGED <<record, statusResponse>>
    /\ RouteFrame

\* if (document.workflowStatus === "DRAFT") update workflowStatus
RunUpdatesWorkflow(r) ==
    /\ runs[r].pc = "workflow"
    /\ record' = IF runs[r].snapshot.workflowStatus = "DRAFT"
                 THEN [record EXCEPT !.workflowStatus = "IN_REVIEW",
                                     !.currentAssignee = runs[r].snapshot.uploadedBy]
                 ELSE record
    /\ runs' = [runs EXCEPT ![r] = Done]
    /\ UNCHANGED <<chunkRecords, statusResponse>>
    /\ RouteFrame

\* the else branch: the pipeline returned success=false
RunSavesFailed(r) ==
    /\ PipelineFailed(r)
    /\ record' = [record EXCEPT !.status = "FAILED"]
    /\ runs' = [runs EXCEPT ![r] = DoneWith(runs[r].frame.result)]
    /\ UNCHANGED <<chunkRecords, statusResponse>>
    /\ RouteFrame

\* a query of the try block is rejected by the record store
AtWrite(r) ==
    \/ runs[r].pc \in {"markProcessing", "deleteChunks", "createChunks"}
    \/ runs[r].pc = "workflow" /\ runs[r].snapshot.workflowStatus = "DRAFT"
    \/ PipelineSucceeded(r)
    \/ PipelineFailed(r)

RunWriteFails(r) ==
    /\ AtWrite(r)
    /\ runs' = [runs EXCEPT ![r].pc = "catch"]
    /\ UNCHANGED <<record, chunkRecords, statusResponse>>
    /\ RouteFrame

\* PATCH: the reset is rejected, the handler answers 500 and starts nothing
RunResetFails(r) ==
    /\ runs[r].pc = "reset"
    /\ runs' = [runs EXCEPT ![r] = Done]
    /\ UNCHANGED <<record, chunkRecords, statusResponse>>
    /\ RouteFrame

\* the catch block: mark as failed
RunCatches(r) ==
    /\ runs[r].pc = "catch"
    /\ record' = [record EXCEPT !.status = "FAILED"]
    /\ runs' = [runs EXCEPT ![r] = Done]
    /\ UNCHANGED <<chunkRecords, statusResponse>>
    /\ RouteFrame

\* the catch block's own update is rejected: logged, nothing else
RunCatchWriteFails(r) ==
    /\ runs[r].pc = "catch"
    /\ runs' = [runs EXCEPT ![r] = Done]
    /\ UNCHANGED <<record, chunkRecords, statusResponse>>
    /\ RouteFrame

RunStep(r) ==
    \/ RunResets(r)
    \/ RunMarksProcessing(r)
    \/ RunDownloads(r)
    \/ RunPipelineStep(r)
    \/ RunSavesCompleted(r)
    \/ RunDeletesChunks(r)
    \/ RunCreatesChunks(r)
    \/ RunUpdatesWorkflow(r)
    \/ RunSavesFailed(r)
    \/ RunCatches(r)

RunFault(r) ==
    \/ RunDownloadFails(r)
    \/ RunWriteFails(r)
    \/ RunResetFails(r)
    \/ RunCatchWriteFails(r)

NextRoutes ==
    \/ PostProcess
    \/ PatchRetry
    \/ \E r \in 1..MaxRuns : RunStep(r)
    \/ \E r \in 1..MaxRuns : RunFault(r)

SpecRoutes == InitRoutes /\ [][NextRoutes]_vars

\* every run that can take a step eventually takes one, whether the step
\* succeeds or is rejected; requests may or may not come
SpecRoutesLive ==
    /\ SpecRoutes
    /\ \A r \in 1..MaxRuns : WF_vars(RunStep(r) \/ RunFault(r))

\* ------------------------------------------------------------------------
\* GET .../status polled while the background task of the upload runs
\* ------------------------------------------------------------------------
NextStatus ==
    \/ StatusGet
    \/ RunMarksProcessing(1)
    \/ RunPipelineStep(1)
    \/ RunSavesCompleted(1)
    \/ RunCreatesChunks(1)
    \/ RunSavesFailed(1)
    \/ RunWriteFails(1)
    \/ RunCatches(1)
    \/ RunCatchWriteFails(1)

SpecStatus == InitRoutes /\ [][NextStatus]_vars

\* ========================================================================
\* Properties of the status route (checked under SpecStatus)
\* ========================================================================
Answered == "stage" \in DOMAIN statusResponse

\* C21: when the processing of a document failed, the retryable flag of
\* the failed answer of the status route is the retryable flag of the
\* ProcessingError processDocument made for the document.
C21_RetryableSurfaced ==
    \A r \in 1..MaxRuns :
        (/\ Answered
         /\ statusResponse.stage = "failed"
         /\ runs[r].pc = "done"
         /\ "result" \in DOMAIN runs[r])
        => statusResponse.error.retryable = runs[r].result.error.retryable

\* the stage and the percentage estimated from the elapsed seconds and the
\* estimated total alone
EstimatedStage(elapsedSeconds, total) ==
    IF 100 * elapsedSeconds <= 30 * total THEN "extracting"
    ELSE IF 100 * elapsedSeconds <= 60 * total THEN "chunking"
    ELSE "analyzing"

LatestEvent(r) == runs[r].frame.events[Len(runs[r].frame.events)]

\* C22: an answer of the status route with one of the stages of a document
\* in processing comes from the elapsed time and the file's size and type,
\* never from the progress events of the run; so the route can answer
\* analyzing, 95 while the run's latest event still is an extracting one.
C22_StatusIgnoresEvents ==
    (Answered /\ statusResponse.stage \in {"extracting", "chunking", "analyzing"}) =>
        \E e \in 0..MaxElapsed :
            LET total == estimateProcessingTime(record.fileSize, record.fileType)
            IN  /\ statusResponse.stage = EstimatedStage(e, total)
                /\ 2 * total * statusResponse.progress <= 200 * e + total
                /\ \/ statusResponse.progress = 95
                   \/ 200 * e + total < 2 * total * (statusResponse.progress + 1)

C22_Witness ==
    /\ Answered
    /\ statusResponse.stage = "analyzing"
    /\ statusResponse.progress = 95
    /\ runs[1].pc = "pipeline"
    /\ runs[1].frame.events # <<>>
    /\ LatestEvent(1).stage = "extracting"
    /\ runs[1].frame.pc = "extract"

\* C23: for a row in status PROCESSING the answer is extracting up to 30%
\* of the estimated total, chunking above 30% up to 60%, analyzing above
\* 60%; its progress is at most 95; with more elapsed time neither the
\* progress nor the stage goes back; it is never completed or failed.
C23_ProcessingEstimate ==
    record.status = "PROCESSING" =>
        \A e \in 0..MaxElapsed :
            LET total  == estimateProcessingTime(record.fileSize, record.fileType)
                answer == mapDocumentStatusToProgress(record, e)
            IN  /\ answer.stage = EstimatedStage(e, total)
                /\ answer.progress <= 95
                /\ answer.stage \notin {"completed", "failed"}
                /\ \A later \in e..MaxElapsed :
                      /\ mapDocumentStatusToProgress(record, later).progress
                            >= answer.progress
                      /\ StageRank(mapDocumentStatusToProgress(record, later).stage)
                            >= StageRank(answer.stage)

\* the route answered chunking for a row in processing
C23_Witness ==
    /\ record.status = "PROCESSING"
    /\ Answered
    /\ statusResponse.stage = "chunking"
    /\ statusResponse.progress > 30
    /\ statusResponse.progress <= 60

\* ========================================================================
\* Properties of the background runs (checked under SpecRoutes)
\* ========================================================================
\* the runs whose background function has been called and has not ended
RunsInFlight == { r \in 1..MaxRuns : runs[r].pc \notin {"none", "reset", "done"} }

\* C24: at most one background run of the document is in flight: no run
\* is started while an earlier one has not ended, whatever the order of
\* the upload's task and the POST and PATCH requests.
C24_OneRunInFlight == Cardinality(RunsInFlight) <= 1

\* C25: while the row is COMPLETED, the document has as many chunk rows as
\* its chunkCount says, and no two of them have the same chunkIndex.
C25_ChunksMatchCount ==
    record.status = "COMPLETED" =>
        /\ Len(chunkRecords) = record.chunkCount
        /\ \A i, j \in 1..Len(chunkRecords) :
              i # j => chunkRecords[i] # chunkRecords[j]

StatusEdges ==
    { <<"UPLOADED", "PROCESSING">>, <<"PROCESSING", "COMPLETED">>,
      <<"PROCESSING", "FAILED">>, <<"FAILED", "UPLOADED">> }

\* C26: the status of the row changes only from UPLOADED to PROCESSING,
\* from PROCESSING to COMPLETED or to FAILED, and from FAILED to UPLOADED;
\* so a COMPLETED row never becomes PROCESSING or FAILED.
C26_StatusEdges ==
    [][record'.status # record.status =>
          <<record.status, record'.status>> \in StatusEdges]_vars

\* C27: a row in PROCESSING eventually is COMPLETED or FAILED, also when
\* the pipeline, the download or a write to the record store fails.
C27_ProcessingEnds ==
    (record.status = "PROCESSING") ~> (record.status \in {"COMPLETED", "FAILED"})

\* ========================================================================
\* createWorkflowTransition calls on the document, next to one
\* processDocumentAsync run started by POST .../process
\* ========================================================================
\* the number of calls that can be in flight, and of WorkflowTransition
\* rows the model lets the document collect
MaxCalls == 2
MaxTransitions == 2

WorkflowStatuses == {"DRAFT", "IN_REVIEW", "APPROVED", "REJECTED"}

\* WORKFLOW_TRANSITIONS[fromStatus][userRole]
WORKFLOW_TRANSITIONS(fromStatus, userRole) ==
    CASE fromStatus = "DRAFT" ->
            (CASE userRole = "ANALYST"    -> {"IN_REVIEW"}
               [] userRole = "COMPLIANCE" -> {}
               [] userRole = "MANAGER"    -> {"APPROVED", "REJECTED"}
               [] userRole = "ADMIN"      -> {"IN_REVIEW", "APPROVED", "REJECTED"})
      [] fromStatus = "IN_REVIEW" ->
            (CASE userRole = "ANALYST"    -> {"DRAFT"}
               [] userRole = "COMPLIANCE" -> {"APPROVED", "REJECTED", "DRAFT"}
               [] userRole = "MANAGER"    -> {"APPROVED", "REJECTED", "DRAFT"}
               [] userRole = "ADMIN"      -> {"DRAFT", "APPROVED", "REJECTED"})
      [] fromStatus = "APPROVED" ->
            (CASE userRole = "ANALYST"    -> {}
               [] userRole = "COMPLIANCE" -> {"IN_REVIEW"}
               [] userRole = "MANAGER"    -> {"IN_REVIEW"}
               [] userRole = "ADMIN"      -> {"DRAFT", "IN_REVIEW", "REJECTED"})
      [] fromStatus = "REJECTED" ->
            (CASE userRole = "ANALYST"    -> {"DRAFT"}
               [] userRole = "COMPLIANCE" -> {"IN_REVIEW"}
               [] userRole = "MANAGER"    -> {"IN_REVIEW"}
               [] userRole = "ADMIN"      -> {"DRAFT", "IN_REVIEW", "APPROVED"})

\* the User rows: userId and stored role
StoredRole(userId) == IF userId = "analyst" THEN "ANALYST" ELSE "MANAGER"

\* the inputs of the calls: the uploader (an analyst) or a manager, with
\* the role the caller states, and the status asked for
TransitionInputs ==
    [userId : {"analyst", "manager"}, userRole : {"ANALYST", "MANAGER"},
     toStatus : WorkflowStatuses]

\* validateWorkflowTransition: whether it answers canTransition = true
validateWorkflowTransition(doc, fromStatus, toStatus, userRole, userId) ==
    /\ toStatus \in WORKFLOW_TRANSITIONS(fromStatus, userRole)
    /\ doc.workflowStatus = fromStatus
    /\ userRole = "ANALYST" => (doc.uploadedBy = userId \/ doc.currentAssignee = userId)
    /\ StoredRole(userId) = userRole

\* getAutoAssignee; undefined leaves the column as it is
getAutoAssignee(toStatus, currentUserId, assignee) ==
    IF toStatus = "DRAFT" THEN currentUserId ELSE assignee

NoCall == [pc |-> "idle"]

\* a row whose upload task ended without a write reaching the record store,
\* no run and no call in flight
InitWorkflow ==
    /\ record = CreatedRecord([filename |-> <<"a", "txt">>,
                               buffer   |-> [pattern |-> "text", length |-> 2048],
                               payload  |-> Content(OneParagraph)])
    /\ chunkRecords = <<>>
    /\ runs = [r \in 1..MaxRuns |-> IF r = 1 THEN Done ELSE NoRun]
    /\ statusResponse = Pending
    /\ transitions = <<>>
    /\ calls = [c \in 1..MaxCalls |-> NoCall]
    /\ IdleProcess
    /\ IdleChunk
    /\ IdleValidate
    /\ IdleExtract
    /\ IdleBatch
    /\ IdleConcurrent

WorkflowFrame ==
    UNCHANGED <<processVars, chunkVars, validateVars, extractVars, batchVars,
                concurrentVars, chunkRecords, runs, statusResponse>>

\* createWorkflowTransition(input) up to the read of the document's status
CallStarts(c) ==
    /\ calls[c].pc = "idle"
    /\ Len(transitions) < MaxTransitions
    /\ \E input \in TransitionInputs :
          calls' = [calls EXCEPT ![c] = [pc         |-> "validate",
                                         input      |-> input,
                                         fromStatus |-> record.workflowStatus]]
    /\ UNCHANGED <<record, transitions>>
    /\ WorkflowFrame

CanTransition(c) ==
    validateWorkflowTransition(record, calls[c].fromStatus, calls[c].input.toStatus,
                               calls[c].input.userRole, calls[c].input.userId)

\* the validation allowed the transition
CallValidated(c) ==
    /\ calls[c].pc = "validate"
    /\ CanTransition(c)
    /\ calls' = [calls EXCEPT ![c].pc = "commit"]
    /\ UNCHANGED <<record, transitions>>
    /\ WorkflowFrame

\* the validation refused it: TRANSITION_NOT_ALLOWED
CallRejected(c) ==
    /\ calls[c].pc = "validate"
    /\ ~CanTransition(c)
    /\ calls' = [calls EXCEPT ![c] = NoCall]
    /\ UNCHANGED <<record, transitions>>
    /\ WorkflowFrame

\* prisma.$transaction: the WorkflowTransition row and the document's update
CallCommits(c) ==
    /\ calls[c].pc = "commit"
    /\ transitions' = Append(transitions,
                             [fromStatus |-> calls[c].fromStatus,
                              toStatus   |-> calls[c].input.toStatus,
                              userId     |-> calls[c].input.userId,
                              userRole   |-> calls[c].input.userRole])
    /\ record' = [record EXCEPT
                     !.workflowStatus = calls[c].input.toStatus,
                     !.currentAssignee = getAutoAssignee(calls[c].input.toStatus,
                                                         calls[c].input.userId, @)]
    /\ calls' = [calls EXCEPT ![c] = NoCall]
    /\ WorkflowFrame

\* the transaction is rolled back: the catch block answers success: false
CallCommitFails(c) ==
    /\ calls[c].pc = "commit"
    /\ calls' = [calls EXCEPT ![c] = NoCall]
    /\ UNCHANGED <<record, transitions>>
    /\ WorkflowFrame

NextWorkflow ==
    \/ \E c \in 1..MaxCalls : CallStarts(c)
    \/ \E c \in 1..MaxCalls : CallValidated(c)
    \/ \E c \in 1..MaxCalls : CallRejected(c)
    \/ \E c \in 1..MaxCalls : CallCommits(c)
    \/ \E c \in 1..MaxCalls : CallCommitFails(c)
    \/ PostProcess /\ RunsInFlight = {}
    \/ RunMarksProcessing(1)
    \/ RunDownloads(1)
    \/ RunPipelineStep(1)
    \/ RunSavesCompleted(1)
    \/ RunDeletesChunks(1)
    \/ RunCreatesChunks(1)
    \/ RunUpdatesWorkflow(1)

SpecWorkflow == InitWorkflow /\ [][NextWorkflow]_vars

\* ========================================================================
\* Properties of the workflow status (checked under SpecWorkflow)
\* ========================================================================
\* C28: whenever the workflowStatus of the document changes, the same step
\* adds a WorkflowTransition row whose fromStatus is the workflowStatus
\* before the step and whose toStatus is the workflowStatus after it.
C28_ChangeHasTransition ==
    [][record'.workflowStatus # record.workflowStatus =>
          /\ Len(transitions') = Len(transitions) + 1
          /\ SubSeq(transitions', 1, Len(transitions)) = transitions
          /\ transitions'[Len(transitions')].fromStatus = record.workflowStatus
          /\ transitions'[Len(transitions')].toStatus = record'.workflowStatus]_vars

\* C29: a transition committed by createWorkflowTransition is allowed by
\* WORKFLOW_TRANSITIONS for the workflowStatus the document has when the
\* transaction commits, the stored role of the acting user and toStatus;
\* an analyst's calls never make the document APPROVED or REJECTED; and a
\* call that is refused changes neither the workflowStatus nor the
\* transition rows.
C29_CommitsPermitted ==
    [][/\ Len(transitions') > Len(transitions) =>
             LET committed == transitions'[Len(transitions')]
             IN  /\ committed.toStatus
                       \in WORKFLOW_TRANSITIONS(record.workflowStatus,
                                                StoredRole(committed.userId))
                 /\ StoredRole(committed.userId) = "ANALYST"
                       => committed.toStatus \notin {"APPROVED", "REJECTED"}
       /\ (\E c \in 1..MaxCalls : calls[c].pc = "validate" /\ calls'[c].pc = "idle")
             => /\ record' = record
                /\ transitions' = transitions]_vars

====
